---------------------------- MODULE Spec2Model ----------------------------
(***************************************************************************)
(* A model of timesheet-gen (autolog): the derivation of per-day worked    *)
(* hours from commit dates, the preservation of edited entries, and the    *)
(* merge of client records into the configuration document.                *)
(*                                                                         *)
(* Representation.                                                         *)
(*  - Option<T> is a sequence of length 0 (None) or 1 (Some(x)).            *)
(*  - Vec<T> is a sequence; the Rust index i is the TLA+ index i + 1.       *)
(*  - HashMap<K, V> is a function whose DOMAIN is the key set.              *)
(*  - A String holding a decimal number is the sequence of its digits       *)
(*    (to_string); other strings are TLA+ strings.                          *)
(*  - f64 hours are exact rationals, stored as the integer hours*HourScale. *)
(*    (For the divisors 1..5 that the bounds allow, the f64 sums of k       *)
(*    copies of 8/k are exactly 8.0 as well.)                               *)
(*  - process::exit and panics end the invocation: a function that can      *)
(*    end it returns a record [kind |-> "exit" | "panic"].                  *)
(***************************************************************************)
EXTENDS Integers, Sequences, FiniteSets, TLC

(***************************************************************************)
(* State.                                                                  *)
(*  alloc   the arguments and the result of one run of the assembler       *)
(*  client  a ClientRepositories record held in memory                     *)
(*  gitlog  what `git log` answers for each repository: the calendar dates *)
(*          of the commits of its author                                   *)
(*  run     the last operation on the client record and how it ended       *)
(*          (SpecClient), or the last command and how it ended (SpecConfig)*)
(*  merge   the arguments and the result of one call of serialize_config   *)
(*  config  the config file: None when there is none, or Some(document)    *)
(*  history the text that `git log` printed and what parsing it gave       *)
(*  race    two invocations of the program and the config file they share  *)
(***************************************************************************)
VARIABLES alloc, client, gitlog, run, merge, config, history, race

allocVars == <<alloc>>
clientVars == <<client, gitlog, run>>
vars == <<alloc, client, gitlog, run, merge, config, history, race>>

\* the value of a variable that a specification does not use
Idle == [phase |-> "idle"]

(***************************************************************************)
(* Bounds of the model.                                                    *)
(***************************************************************************)
\* longest list of adjacent worked-day sets handed to the allocator
MaxAdjacent == 2
\* most repositories under one client
MaxRepos == 3
\* most changes of a git log and edits of a day entry in one behaviour
MaxSteps == 2

(***************************************************************************)
(* Program constants.                                                      *)
(***************************************************************************)
\* the daily hour budget: the literal 8.0 of return_worked_hours_from_worked_days
FullDay == 8

None == <<>>
Some(x) == <<x>>
is_some(o) == Len(o) = 1
is_none(o) == Len(o) = 0
unwrap(o) == o[1]

\* `let x = value; body(x)`: the value is computed once and then used
let_in(body(_), value) == CHOOSE result \in {body(x) : x \in {value}} : TRUE

Max(a, b) == IF a >= b THEN a ELSE b

RECURSIVE Gcd(_, _)
Gcd(a, b) == IF b = 0 THEN a ELSE Gcd(b, a % b)

RECURSIVE LcmUpTo(_)
LcmUpTo(n) == IF n <= 1 THEN 1 ELSE LET l == LcmUpTo(n - 1) IN (l * n) \div Gcd(l, n)

\* the unit of the hours representation: hours h is stored as h * HourScale,
\* so that 8.0 / k is exact for every divisor k the bounds allow
HourScale == LcmUpTo(Max(MaxAdjacent + 1, MaxRepos))

\* an f64 literal, and the f64 division 8.0 / k
f64(n) == n * HourScale
f64_div(n, k) == (n * HourScale) \div k

(***************************************************************************)
(* Strings of digits.                                                      *)
(***************************************************************************)
RECURSIVE to_string(_)
to_string(n) == IF n < 10 THEN <<n>> ELSE Append(to_string(n \div 10), n % 10)

(***************************************************************************)
(* chrono: the proleptic Gregorian calendar.                               *)
(***************************************************************************)
\* NaiveDate::from_ymd(y, m, d), as the number of days since 1970-01-01
NaiveDate_from_ymd(y, m, d) ==
    LET yy  == IF m <= 2 THEN y - 1 ELSE y
        era == yy \div 400
        yoe == yy - era * 400
        mp  == IF m > 2 THEN m - 3 ELSE m + 9
        doy == (153 * mp + 2) \div 5 + d - 1
        doe == yoe * 365 + yoe \div 4 - yoe \div 100 + doy
    IN era * 146097 + doe - 719468

\* Utc.ymd(y, m, d).format("%u"): the ISO weekday, 1 = Monday .. 7 = Sunday
format_u(y, m, d) == ((NaiveDate_from_ymd(y, m, d) + 3) % 7) + 1

get_days_from_month_no_december(year, month) ==
    NaiveDate_from_ymd(year, IF month = 12 THEN 1 ELSE month + 1, 1)
        - NaiveDate_from_ymd(year, month, 1)

get_days_from_month(year, month) ==
    NaiveDate_from_ymd(IF month = 12 THEN year + 1 ELSE year,
                       IF month = 12 THEN 1 ELSE month + 1,
                       1)
        - NaiveDate_from_ymd(year, month, 1)

is_weekend_a_day_early(date_tuple, day) ==
    format_u(date_tuple[1], date_tuple[2], day) \in {5, 6}

is_weekend(date_tuple, day) ==
    format_u(date_tuple[1], date_tuple[2], day) \in {6, 7}

(***************************************************************************)
(* The allocator (utils/date/date_parser.rs).                              *)
(***************************************************************************)
Contains(vec, x) == \E i \in DOMAIN vec : vec[i] = x

return_worked_hours_no_plus_one(worked_days, day, adjacent_days_in_month) ==
    LET has_day(month) == day \in month
        frequency == Len(SelectSeq(adjacent_days_in_month, has_day))
    IN IF Contains(worked_days, day)
       THEN f64_div(FullDay, Max(frequency, 1))
       ELSE f64(0)

return_worked_hours_from_worked_days(worked_days, day, adjacent_days_in_month) ==
    LET has_day(month) == day \in month
        frequency_of_day_worked_in_adjacent_timesheets ==
            Len(SelectSeq(adjacent_days_in_month, has_day)) + 1
    IN IF Contains(worked_days, day)
       THEN f64_div(FullDay, frequency_of_day_worked_in_adjacent_timesheets)
       ELSE f64(0)

create_single_day_object(weekend, hours, edited) ==
    [weekend |-> weekend, hours |-> hours, user_edited |-> edited]


(***************************************************************************)
(* The repository record and its timesheet accessors (timesheet.rs).       *)
(***************************************************************************)
Ok(v) == [kind |-> "Ok", value |-> v]
Err(msg) == [kind |-> "Err", msg |-> msg]
Panic == [kind |-> "panic"]
Exit(code) == [kind |-> "exit", code |-> code]

\* a setter that keeps the months of the timesheet that it replaces
set_timesheet_keeping_months(self, value) ==
    [self EXCEPT !.timesheet =
        IF is_none(@) THEN Some(value)
        ELSE Some([ys \in DOMAIN unwrap(@) \cup DOMAIN value |->
                     IF ys \notin DOMAIN value THEN unwrap(@)[ys]
                     ELSE IF ys \notin DOMAIN unwrap(@) THEN value[ys]
                     ELSE value[ys] @@ unwrap(@)[ys]])]

set_timesheet(self, value) == [self EXCEPT !.timesheet = Some(value)]

set_git_log_dates(self, value) == [self EXCEPT !.git_log_dates = Some(value)]

\* Ok(the field of the day entry at vector index `day`), an Err for a year or a
\* month that the timesheet does not hold, a panic for an index past the vector
get_timesheet_entry(self, year_string, month_u32, day, entry) ==
    IF is_none(self.timesheet) THEN Panic
    ELSE LET years == unwrap(self.timesheet) IN
         IF year_string \notin DOMAIN years
         THEN Err("Passed year not found in timesheet data")
         ELSE IF to_string(month_u32) \notin DOMAIN years[year_string]
         THEN Err("Passed month not found in timesheet data")
         ELSE LET month == years[year_string][to_string(month_u32)] IN
              IF day >= Len(month) THEN Panic
              ELSE Ok(Some(month[day + 1][entry]))

(***************************************************************************)
(* parse_hours_from_date: one entry per day of the month.                  *)
(***************************************************************************)
unwrap_or(o, default) == IF is_some(o) THEN unwrap(o) ELSE default

\* the loop body that adds the allocated hours to the hours of an edited day
day_map_adding_hours(date_tuple, day, worked_days, repository, adjacent_days_in_month) ==
    LET weekend == is_weekend(date_tuple, day)
        hours_worked ==
            return_worked_hours_from_worked_days(worked_days, day, adjacent_days_in_month)
    IN IF is_none(repository.timesheet)
       THEN Ok(create_single_day_object(weekend, hours_worked, FALSE))
       ELSE LET is_user_edited ==
                    get_timesheet_entry(repository, to_string(date_tuple[1]),
                                        date_tuple[2], day - 1, "user_edited")
                hours_for_user_edited_day ==
                    get_timesheet_entry(repository, to_string(date_tuple[1]),
                                        date_tuple[2], day - 1, "hours")
            IN IF is_user_edited.kind = "Err" THEN Exit("DATAERR")
               ELSE IF is_user_edited.kind = "panic" THEN Panic
               ELSE IF unwrap_or(is_user_edited.value, FALSE) = FALSE
               THEN Ok(create_single_day_object(weekend, hours_worked, FALSE))
               ELSE Ok(create_single_day_object(
                           weekend,
                           unwrap(hours_for_user_edited_day.value) + hours_worked,
                           TRUE))

\* the body of the loop over the days, for one day
day_map_of(date_tuple, day, worked_days, repository, adjacent_days_in_month) ==
    LET weekend == is_weekend(date_tuple, day)
        hours_worked ==
            return_worked_hours_from_worked_days(worked_days, day, adjacent_days_in_month)
    IN IF is_none(repository.timesheet)
       THEN Ok(create_single_day_object(weekend, hours_worked, FALSE))
       ELSE LET day_index == day - 1
                is_user_edited ==
                    get_timesheet_entry(repository, to_string(date_tuple[1]),
                                        date_tuple[2], day_index, "user_edited")
                hours_for_user_edited_day ==
                    get_timesheet_entry(repository, to_string(date_tuple[1]),
                                        date_tuple[2], day_index, "hours")
            IN IF is_user_edited.kind = "Err" THEN Exit("DATAERR")
               ELSE IF is_user_edited.kind = "panic" THEN Panic
               ELSE IF unwrap_or(is_user_edited.value, FALSE) = FALSE
               THEN Ok(create_single_day_object(weekend, hours_worked, FALSE))
               ELSE Ok(create_single_day_object(
                           weekend, unwrap(hours_for_user_edited_day.value), TRUE))

\* the first result of a sequence of results that is not Ok, or Ok(the values)
collect_results(results) ==
    LET collected(rs) ==
            IF \E i \in DOMAIN rs : rs[i].kind # "Ok"
            THEN LET first == CHOOSE i \in DOMAIN rs :
                                  /\ rs[i].kind # "Ok"
                                  /\ \A j \in DOMAIN rs : rs[j].kind # "Ok" => i <= j
                 IN rs[first]
            ELSE Ok([i \in DOMAIN rs |-> rs[i].value])
    IN let_in(collected, results)

parse_hours_ignoring_edits(date_tuple, worked_days, repository, adjacent_days_in_month) ==
    Ok([day \in 1..date_tuple[3] |->
          create_single_day_object(
              is_weekend(date_tuple, day),
              return_worked_hours_from_worked_days(worked_days, day, adjacent_days_in_month),
              FALSE)])

parse_hours_from_date(date_tuple, worked_days, repository, adjacent_days_in_month) ==
    collect_results([day \in 1..date_tuple[3] |->
        day_map_of(date_tuple, day, worked_days, repository, adjacent_days_in_month)])

(***************************************************************************)
(* get_timesheet_map_from_date_hashmap: every month of the index.          *)
(***************************************************************************)
RECURSIVE sorted(_)
sorted(days) ==
    IF days = {} THEN <<>>
    ELSE LET least == CHOOSE d \in days : \A e \in days : d <= e
         IN <<least>> \o sorted(days \ {least})

get_adjacent_git_log_days_for_month(adjacent_git_log_days, year, month) ==
    LET has_month(log_day) == year \in DOMAIN log_day /\ month \in DOMAIN log_day[year]
        found == SelectSeq(adjacent_git_log_days, has_month)
    IN [i \in DOMAIN found |-> found[i][year][month]]

\* the (year, month) pairs of an index, and the pairs of a timesheet as numbers
month_keys(git_log_dates) ==
    {<<y, m>> \in (DOMAIN git_log_dates) \X (1..12) : m \in DOMAIN git_log_dates[y]}

month_timesheet_of(git_log_dates, repository, adjacent_git_log_dates, year, month) ==
    parse_hours_from_date(
        <<year, month, get_days_from_month(year, month)>>,
        sorted(git_log_dates[year][month]),
        repository,
        get_adjacent_git_log_days_for_month(adjacent_git_log_dates, year, month))

get_timesheet_map_from_date_hashmap(git_log_dates, repository, adjacent_git_log_dates) ==
    LET timesheet_years(months) ==
            LET failed == {ym \in DOMAIN months : months[ym].kind # "Ok"}
            IN IF failed # {}
               THEN IF \E ym \in failed : months[ym].kind = "exit"
                    THEN Exit("DATAERR") ELSE Panic
               ELSE Ok([ys \in {to_string(y) : y \in DOMAIN git_log_dates} |->
                    LET y == CHOOSE y \in DOMAIN git_log_dates : to_string(y) = ys IN
                    [ms \in {to_string(m) : m \in DOMAIN git_log_dates[y]} |->
                       LET m == CHOOSE m \in DOMAIN git_log_dates[y] : to_string(m) = ms
                       IN months[<<y, m>>].value]])
    IN let_in(timesheet_years,
              [ym \in month_keys(git_log_dates) |->
                  month_timesheet_of(git_log_dates, repository,
                                     adjacent_git_log_dates, ym[1], ym[2])])

(***************************************************************************)
(* parse_git_log_dates_from_git_history: the index of a log's dates.       *)
(* A log is the set of the calendar dates <<year, month, day>> of its date *)
(* lines.                                                                  *)
(***************************************************************************)
year_month_map_of(dates) ==
    [y \in {d[1] : d \in dates} |->
        [m \in {d[2] : d \in {e \in dates : e[1] = y}} |->
            {d[3] : d \in {e \in dates : e[1] = y /\ e[2] = m}}]]

Repository(namespace) ==
    [namespace |-> namespace, git_log_dates |-> None, timesheet |-> None,
     client_id |-> None, client_name |-> None, name |-> None]

(***************************************************************************)
(* SpecAlloc: the allocator as a function of its inputs.                   *)
(***************************************************************************)
\* the years of the allocator's inputs: a century non-leap year, a century
\* leap year, a common year and a leap year
AllocYears == {1900, 2000, 2023, 2024}

\* the days of a month that the inputs draw from: the first and the last
SampleDays(y, m) == {1, get_days_from_month(y, m)}

RECURSIVE SeqsUpTo(_, _)
SeqsUpTo(S, n) ==
    IF n = 0 THEN {<<>>}
    ELSE LET shorter == SeqsUpTo(S, n - 1)
         IN shorter \cup {Append(s, x) : s \in {t \in shorter : Len(t) = n - 1}, x \in S}

\* an adjacent index: either it lacks the month or it has some of its days
AdjacentIndexes(y, m) ==
    {year_month_map_of({<<y, m, d>> : d \in D}) : D \in SUBSET SampleDays(y, m)}

AllocInit ==
    \E y \in AllocYears, m \in 1..12 :
      \E W \in (SUBSET SampleDays(y, m)) \ {{}} :
        \E A \in SeqsUpTo(AdjacentIndexes(y, m), MaxAdjacent) :
          \E other \in {{}, {<<y, (m % 12) + 1, 1>>}, {<<y + 1, m, 1>>}} :
            /\ alloc = [phase |-> "input", year |-> y, month |-> m,
                        git_log_dates |->
                            year_month_map_of({<<y, m, d>> : d \in W} \cup other),
                        adjacent |-> A,
                        out |-> None]
            /\ client = Idle /\ gitlog = Idle /\ run = Idle
            /\ merge = Idle /\ config = Idle /\ history = Idle /\ race = Idle

\* get_timesheet_map_from_date_hashmap on a repository without a timesheet
Assemble ==
    /\ alloc.phase = "input"
    /\ alloc' = [alloc EXCEPT
                   !.phase = "done",
                   !.out = Some(get_timesheet_map_from_date_hashmap(
                                    alloc.git_log_dates, Repository("r"), alloc.adjacent))]
    /\ UNCHANGED <<clientVars, merge, config, history, race>>

AllocNext == Assemble

SpecAlloc == AllocInit /\ [][AllocNext]_vars

(***************************************************************************)
(* The calendar as the claims state it: a table of month lengths, the      *)
(* Gregorian leap rule and Zeller's congruence.                            *)
(***************************************************************************)
IsLeapYear(y) == (y % 4 = 0 /\ y % 100 # 0) \/ y % 400 = 0

CalendarDays(y, m) ==
    CASE m \in {1, 3, 5, 7, 8, 10, 12} -> 31
      [] m \in {4, 6, 9, 11} -> 30
      [] OTHER -> IF IsLeapYear(y) THEN 29 ELSE 28

\* 0 = Saturday, 1 = Sunday, 2 = Monday, ...
Zeller(y, m, d) ==
    LET mm == IF m <= 2 THEN m + 12 ELSE m
        yy == IF m <= 2 THEN y - 1 ELSE y
        K == yy % 100
        J == yy \div 100
    IN (d + (13 * (mm + 1)) \div 5 + K + K \div 4 + J \div 4 + 5 * J) % 7

IsSaturdayOrSunday(y, m, d) == Zeller(y, m, d) \in {0, 1}

\* the number of the adjacent indexes of the allocator's input that worked day d
AllocOverlap(d) ==
    Cardinality({i \in DOMAIN alloc.adjacent :
                    /\ alloc.year \in DOMAIN alloc.adjacent[i]
                    /\ alloc.month \in DOMAIN alloc.adjacent[i][alloc.year]
                    /\ d \in alloc.adjacent[i][alloc.year][alloc.month]})

AllocWorked == alloc.git_log_dates[alloc.year][alloc.month]

AllocMonthOut == unwrap(alloc.out).value[to_string(alloc.year)][to_string(alloc.month)]

\* h is the allocation the fairness formula gives day d
FairHours(d, h) ==
    IF d \notin AllocWorked THEN h = 0
    ELSE h * (1 + AllocOverlap(d)) = FullDay * HourScale

\* C1: for every day d of a month, every worked-day set W and every list A of
\* adjacent worked-day sets, the allocated hours are 0 when d is not in W and
\* 8 / (1 + the number of sets of A that contain d) when d is in W.
C1_AllocatedHours ==
    /\ \A d \in 1..CalendarDays(alloc.year, alloc.month) :
          FairHours(d, return_worked_hours_from_worked_days(
                           sorted(AllocWorked), d,
                           get_adjacent_git_log_days_for_month(
                               alloc.adjacent, alloc.year, alloc.month)))
    /\ alloc.phase = "done" =>
          /\ unwrap(alloc.out).kind = "Ok"
          /\ \A d \in DOMAIN AllocMonthOut : FairHours(d, AllocMonthOut[d].hours)

\* a day worked by the repository and by two adjacent ones has got 8/3 hours
C1_Witness ==
    /\ alloc.phase = "done"
    /\ \E d \in AllocWorked :
          /\ AllocOverlap(d) = 2
          /\ AllocMonthOut[d].hours * 3 = FullDay * HourScale
    /\ \E d \in AllocWorked : AllocOverlap(d) = 0 /\ AllocMonthOut[d].hours = f64(FullDay)

\* C5: for every (year, month) of a worked-day index, the month timesheet has
\* exactly as many entries as the month has calendar days, and entry i
\* describes day i + 1 (its weekend flag and whether it was worked).
C5_MonthLength ==
    alloc.phase = "done" =>
       /\ unwrap(alloc.out).kind = "Ok"
       /\ \A ym \in month_keys(alloc.git_log_dates) :
            LET ts == unwrap(alloc.out).value IN
            /\ to_string(ym[1]) \in DOMAIN ts
            /\ to_string(ym[2]) \in DOMAIN ts[to_string(ym[1])]
            /\ LET month == ts[to_string(ym[1])][to_string(ym[2])] IN
               /\ Len(month) = CalendarDays(ym[1], ym[2])
               /\ \A i \in 0..(Len(month) - 1) :
                    /\ month[i + 1].weekend = IsSaturdayOrSunday(ym[1], ym[2], i + 1)
                    /\ (month[i + 1].hours > 0) =
                          ((i + 1) \in alloc.git_log_dates[ym[1]][ym[2]])

\* the February of a leap year got 29 entries, next to a month of another year
C5_Witness ==
    /\ alloc.phase = "done"
    /\ alloc.year = 2024 /\ alloc.month = 2
    /\ Len(AllocMonthOut) = 29
    /\ 2025 \in DOMAIN alloc.git_log_dates

\* the December of a year got 31 entries
C5_WitnessDecember ==
    alloc.phase = "done" /\ alloc.month = 12 /\ Len(AllocMonthOut) = 31

(***************************************************************************)
(* Validation of the edit arguments (utils/date/date_parser.rs).  A        *)
(* numeric argument is the number its decimal string denotes.              *)
(***************************************************************************)
check_for_valid_year(year) ==
    IF is_none(year) THEN Err("Year not found")
    ELSE IF unwrap(year) \notin 1900..2099 THEN Err("Not a real year")
    ELSE Ok(to_string(unwrap(year)))

check_for_valid_month(month) ==
    IF is_none(month) THEN Err("Month not found")
    ELSE IF unwrap(month) \notin 1..12 THEN Err("Not a real month")
    ELSE Ok(unwrap(month))

check_for_valid_day_of_any_month(day, month, year) ==
    IF is_none(day) THEN Err("Day not found")
    ELSE IF unwrap(day) \notin 1..31 THEN Err("Day index in the month doesn't exist")
    ELSE Ok(unwrap(day))

check_for_valid_day(day, month, year) ==
    IF is_none(day) THEN Err("Day not found")
    ELSE IF unwrap(day) \notin 1..31 THEN Err("Day index in the month doesn't exist")
    ELSE IF get_days_from_month(year, month) < unwrap(day)
    THEN Err("The day given doesn't exist for the given month/year")
    ELSE Ok(unwrap(day))

(***************************************************************************)
(* Editing one day entry (timesheet.rs).                                   *)
(***************************************************************************)
\* extend the day entry at vector index `day` with the fields of `entry`
mutate_timesheet_entry(self, year_string, month_u32, day, entry) ==
    IF is_none(self.timesheet) THEN Panic
    ELSE LET years == unwrap(self.timesheet) IN
         IF year_string \notin DOMAIN years
         THEN Err("Passed year not found in timesheet data")
         ELSE IF to_string(month_u32) \notin DOMAIN years[year_string]
         THEN Err("Passed month not found in timesheet data")
         ELSE IF day >= Len(years[year_string][to_string(month_u32)]) THEN Panic
         ELSE Ok([self EXCEPT
                    !.timesheet[1][year_string][to_string(month_u32)][day + 1] = entry @@ @])

\* options = <<hour, day, month, year>>
update_hours_on_month_day_entry(self, options) ==
    LET year_string == check_for_valid_year(options[4])
        month_u32 == check_for_valid_month(options[3])
    IN IF year_string.kind # "Ok" THEN year_string
       ELSE IF month_u32.kind # "Ok" THEN month_u32
       ELSE LET day_string ==
                    check_for_valid_day(options[2], month_u32.value, unwrap(options[4]))
            IN IF day_string.kind # "Ok" THEN day_string
               ELSE IF is_none(options[1]) THEN Panic
               ELSE LET hour == unwrap(options[1])
                        day == day_string.value
                        weekend == get_timesheet_entry(self, year_string.value,
                                                       month_u32.value, day, "weekend")
                    IN IF weekend.kind = "Err" THEN Exit("DATAERR")
                       ELSE IF weekend.kind = "panic" THEN Panic
                       ELSE mutate_timesheet_entry(
                                self, year_string.value, month_u32.value, day,
                                [hours |-> f64(hour), user_edited |-> TRUE,
                                 weekend |-> unwrap(weekend.value)])

(***************************************************************************)
(* The git log of a repository becomes its index and its timesheet         *)
(* (timesheet.rs); a git log is the set of the dates of its date lines.    *)
(***************************************************************************)
parse_git_log_dates_from_git_history(self, git_history) ==
    LET with_timesheet(dated) ==
            LET set(timesheet) ==
                    IF timesheet.kind = "Ok"
                    THEN Ok(set_timesheet(dated, timesheet.value))
                    ELSE timesheet
            IN let_in(set, get_timesheet_map_from_date_hashmap(
                               unwrap(dated.git_log_dates), dated, <<>>))
    IN let_in(with_timesheet, set_git_log_dates(self, year_month_map_of(git_history)))

(***************************************************************************)
(* ClientRepositories (client_repositories.rs).                            *)
(***************************************************************************)
ClientRepositories(repositories) ==
    [client |-> None, user |-> None, repositories |-> repositories,
     requires_approval |-> FALSE, approver |-> None]

\* git[namespace] is the answer of `git log` in that repository
exec_generate_timesheets_from_git_history(self, git) ==
    LET set(parsed) ==
            IF parsed.kind = "Ok"
            THEN Ok([self EXCEPT !.repositories = Some(parsed.value)])
            ELSE parsed
    IN IF is_none(self.repositories) THEN Ok(self)
       ELSE let_in(set, collect_results(
                [i \in DOMAIN unwrap(self.repositories) |->
                    parse_git_log_dates_from_git_history(
                        unwrap(self.repositories)[i],
                        git[unwrap(self.repositories)[i].namespace])]))

\* the indexes of the other repositories, with the repository at i as well
adjacent_including_self(repositories, i) ==
    [j \in DOMAIN repositories |-> unwrap(repositories[j].git_log_dates)]

\* the indexes of the repositories before the one at i only
adjacent_of_earlier(repositories, i) ==
    [j \in 1..(i - 1) |-> unwrap(repositories[j].git_log_dates)]

\* the indexes of the repositories other than the one at i, in order
adjacent_git_log_dates_of(repositories, i) ==
    LET other(j) == j # i
        indexes == SelectSeq([j \in DOMAIN repositories |-> j], other)
    IN [k \in DOMAIN indexes |-> unwrap(repositories[indexes[k]].git_log_dates)]

compare_logs_and_set_timesheets(self) ==
    LET timesheet(repositories, i) ==
            IF \E j \in DOMAIN repositories : is_none(repositories[j].git_log_dates)
            THEN IF \E j \in DOMAIN repositories :
                       j # i /\ is_none(repositories[j].git_log_dates)
                 THEN Panic ELSE Exit("DATAERR")
            ELSE LET set(made) ==
                         IF made.kind = "Ok"
                         THEN Ok(set_timesheet(repositories[i], made.value))
                         ELSE made
                 IN let_in(set, get_timesheet_map_from_date_hashmap(
                                    unwrap(repositories[i].git_log_dates),
                                    repositories[i],
                                    adjacent_git_log_dates_of(repositories, i)))
        compare(repositories) ==
            collect_results([i \in DOMAIN repositories |-> timesheet(repositories, i)])
        set_all(compared) ==
            IF compared.kind = "Ok"
            THEN Ok([self EXCEPT !.repositories = Some(compared.value)])
            ELSE compared
    IN IF is_none(self.repositories) THEN Ok(self)
       ELSE let_in(set_all, let_in(compare, unwrap(self.repositories)))

\* exec_generate_timesheets_from_git_history().compare_logs_and_set_timesheets()
generate_and_compare(self, git) ==
    LET compare(generated) ==
            IF generated.kind = "Ok"
            THEN compare_logs_and_set_timesheets(generated.value)
            ELSE generated
        generate(record) ==
            let_in(compare, exec_generate_timesheets_from_git_history(record, git))
    IN let_in(generate, self)

\* the client and the user of the record are those of the repository; the
\* record holds this one repository
set_values(self, repository) ==
    LET should_set_user ==
            IF is_none(self.user) THEN TRUE ELSE unwrap(self.user).is_alias
    IN [self EXCEPT
          !.client = Some([id |-> unwrap_or(repository.client_id, "None"),
                           client_name |-> unwrap_or(repository.client_name, "None")]),
          !.user = IF should_set_user
                   THEN Some([name |-> unwrap_or(repository.name, "None"),
                              is_alias |-> FALSE])
                   ELSE self.user,
          !.repositories = Some(<<repository>>)]

\* Config::fetch_interaction_data
fetch_interaction_data(client_repositories, repository, git) ==
    generate_and_compare(set_values(client_repositories, repository), git)

(***************************************************************************)
(* SpecClient: one client record in memory, the git logs of its            *)
(* repositories, and the operations on the record: recomputing the         *)
(* timesheets of all its repositories and editing a day of one of them.    *)
(***************************************************************************)
Namespaces == <<"autolog", "pila-app", "timesheet-gen", "docs", "api">>

\* the dates the git logs draw from: the first and the last day of a leap
\* February
LogDates == {<<2024, 2, 1>>, <<2024, 2, 29>>}

\* the months and the days an edit names: the months of the logs; the first
\* day and the last two days
EditMonths == {<<date[1], date[2]>> : date \in LogDates}

EditDays(y, m) ==
    LET days == get_days_from_month(y, m) IN {1, days - 1, days}

\* the hours an edit names: within the 8 hours of a day, and the 20 of the
\* test of the edit
EditHours == {5, 20}

\* the dates an edit names: the days above, and dates that are none: a year
\* before 1900 and one after 2099, the months 0 and 13, the day 0, the 30th
\* of a February and a 32nd
EditDates ==
    UNION {{<<ym[1], ym[2], day>> : day \in EditDays(ym[1], ym[2])} : ym \in EditMonths}
        \cup {<<1899, 2, 1>>, <<2100, 2, 1>>, <<2024, 0, 1>>, <<2024, 13, 1>>,
              <<2024, 2, 0>>, <<2024, 2, 30>>, <<2024, 2, 32>>}

\* a repository as onboarding leaves it: its timesheet made from its own log
OnboardedRepository(namespace, git) ==
    LET repository == [Repository(namespace) EXCEPT
                           !.client_id = Some("c1"),
                           !.client_name = Some("alphabet"),
                           !.name = Some("Jim Jones")]
    IN unwrap(fetch_interaction_data(ClientRepositories(None), repository, git)
                  .value.repositories)[1]

\* the initial logs, up to the order of the repositories: the ranks of the
\* logs do not decrease along the repositories
LogRank(log) ==
    (IF <<2024, 2, 1>> \in log THEN 1 ELSE 0) + (IF <<2024, 2, 29>> \in log THEN 2 ELSE 0)

ClientInit ==
    \E n \in 1..MaxRepos :
      \E git \in [{Namespaces[i] : i \in 1..n} -> SUBSET LogDates] :
        /\ \A i \in 1..(n - 1) :
              LogRank(git[Namespaces[i]]) <= LogRank(git[Namespaces[i + 1]])
        /\ gitlog = git
        /\ \E onboarded \in {[i \in 1..n |-> OnboardedRepository(Namespaces[i], git)]} :
              client = [set_values(ClientRepositories(None), onboarded[1])
                          EXCEPT !.repositories = Some(onboarded)]
        /\ run = [op |-> "init", result |-> "Ok", fresh |-> FALSE, steps |-> 0]
        /\ alloc = Idle /\ merge = Idle /\ config = Idle /\ history = Idle /\ race = Idle

\* a commit of the author appears in the log of a repository
Commit ==
    \E namespace \in DOMAIN gitlog, date \in LogDates :
      /\ run.steps < MaxSteps
      /\ date \notin gitlog[namespace]
      /\ gitlog' = [gitlog EXCEPT ![namespace] = @ \cup {date}]
      /\ run' = [run EXCEPT !.op = "commit", !.result = "Ok", !.fresh = FALSE,
                            !.steps = @ + 1]
      /\ UNCHANGED <<client, alloc, merge, config, history, race>>

\* the commits of a date leave the log of a repository (a rewritten history)
Uncommit ==
    \E namespace \in DOMAIN gitlog, date \in LogDates :
      /\ run.steps < MaxSteps
      /\ date \in gitlog[namespace]
      /\ gitlog' = [gitlog EXCEPT ![namespace] = @ \ {date}]
      /\ run' = [run EXCEPT !.op = "uncommit", !.result = "Ok", !.fresh = FALSE,
                            !.steps = @ + 1]
      /\ UNCHANGED <<client, alloc, merge, config, history, race>>

\* exec_generate_timesheets_from_git_history().compare_logs_and_set_timesheets()
\* on the record; an exit or a panic ends the process and the record stays
Sync ==
    /\ \E synced \in {generate_and_compare(client, gitlog)} :
          /\ client' = IF synced.kind = "Ok" THEN synced.value ELSE client
          /\ run' = [run EXCEPT !.op = "sync", !.result = synced.kind,
                                !.fresh = IF synced.kind = "Ok" THEN TRUE ELSE @]
    /\ UNCHANGED <<gitlog, alloc, merge, config, history, race>>

\* update_hours_on_month_day_entry on one repository of the record
EditDay ==
    \E i \in DOMAIN unwrap(client.repositories), date \in EditDates, hour \in EditHours :
        /\ run.steps < MaxSteps
        /\ \E edited \in {update_hours_on_month_day_entry(
                               unwrap(client.repositories)[i],
                               <<Some(hour), Some(date[3]), Some(date[2]), Some(date[1])>>)} :
              /\ client' = IF edited.kind = "Ok"
                           THEN [client EXCEPT !.repositories[1][i] = edited.value]
                           ELSE client
              /\ run' = [run EXCEPT !.op = "edit", !.result = edited.kind,
                                    !.fresh = IF edited.kind = "Ok" THEN FALSE ELSE @,
                                    !.steps = @ + 1]
        /\ UNCHANGED <<gitlog, alloc, merge, config, history, race>>

ClientNext == Commit \/ Uncommit \/ Sync \/ EditDay

SpecClient == ClientInit /\ [][ClientNext]_vars

(***************************************************************************)
(* Claims about the recomputation of a client's timesheets.                *)
(***************************************************************************)
ClientRepos == unwrap(client.repositories)

\* the repositories of the client whose timesheet has the month of the date
HavingMonth(date) ==
    {i \in DOMAIN ClientRepos :
        /\ is_some(ClientRepos[i].timesheet)
        /\ to_string(date[1]) \in DOMAIN unwrap(ClientRepos[i].timesheet)
        /\ to_string(date[2]) \in
               DOMAIN unwrap(ClientRepos[i].timesheet)[to_string(date[1])]}

\* the repositories of the client whose git log has a commit on the date
Workers(date) ==
    {i \in DOMAIN ClientRepos : date \in gitlog[ClientRepos[i].namespace]}

EntryOf(i, date) ==
    unwrap(ClientRepos[i].timesheet)[to_string(date[1])][to_string(date[2])][date[3]]

RECURSIVE SumHours(_, _)
SumHours(repos, date) ==
    IF repos = {} THEN 0
    ELSE LET i == CHOOSE i \in repos : TRUE
         IN EntryOf(i, date).hours + SumHours(repos \ {i}, date)

\* the days of the months of the log dates
CalendarDates ==
    {<<date[1], date[2], d>> : date \in LogDates, d \in 1..31} \cap
    {date \in {2023, 2024} \X (1..12) \X (1..31) :
        date[3] <= CalendarDays(date[1], date[2])}

NoUserEdits ==
    \A date \in CalendarDates :
       \A i \in HavingMonth(date) : ~EntryOf(i, date).user_edited

\* C2: after compare_logs_and_set_timesheets ran on a client without edited
\* entries, for every day that at least one repository of the client worked,
\* the hours of the day summed over the repositories that have the month are
\* exactly 8, and each repository that worked the day holds 8 / k, k being the
\* number of the client's repositories that worked it.
C2_SumIsFullDay ==
    (run.fresh /\ NoUserEdits) =>
       \A date \in CalendarDates :
          Workers(date) # {} =>
             /\ Workers(date) \subseteq HavingMonth(date)
             /\ SumHours(HavingMonth(date), date) = f64(FullDay)
             /\ \A i \in Workers(date) :
                   EntryOf(i, date).hours * Cardinality(Workers(date))
                       = FullDay * HourScale

\* three repositories split one day and one of them has another day alone,
\* while a sibling has that month too
C2_Witness ==
    /\ run.fresh /\ NoUserEdits
    /\ \E date \in LogDates :
          /\ Cardinality(Workers(date)) = 3
          /\ \A i \in Workers(date) : EntryOf(i, date).hours * 3 = FullDay * HourScale
    /\ \E date \in LogDates :
          /\ Cardinality(Workers(date)) = 1
          /\ Cardinality(HavingMonth(date)) = 3
          /\ SumHours(HavingMonth(date), date) = f64(FullDay)

\* an entry of repository i that is flagged as edited
EditedEntries ==
    {<<i, date>> \in (DOMAIN ClientRepos) \X CalendarDates :
        i \in HavingMonth(date) /\ EntryOf(i, date).user_edited}

\* C3: once a day entry has user_edited = true, a later recomputation of the
\* timesheets, whatever became of the worked-day sets of the repository and
\* of its siblings, leaves the entry with the edited hours and the flag set.
C3_EditsSurvive ==
    [][run'.op = "sync" =>
         \A e \in EditedEntries :
            /\ e \in EditedEntries'
            /\ EntryOf(e[1], e[2])'.hours = EntryOf(e[1], e[2]).hours]_vars

\* C4: running the assembly again on the timesheets it produced, with the
\* same git logs and no edit in between, produces the same timesheets.
C4_Idempotent ==
    run.fresh =>
       \A again \in {generate_and_compare(client, gitlog)} :
          again.kind = "Ok" /\ again.value = client

\* a second run after a first one that split a day between two repositories
\* and carried an edited entry
C4_Witness ==
    /\ run.fresh
    /\ run.op = "sync"
    /\ EditedEntries # {}
    /\ \E date \in LogDates : Cardinality(Workers(date)) >= 2
    /\ generate_and_compare(client, gitlog).value = client

(***************************************************************************)
(* The configuration document: the list of the client records that the     *)
(* config file holds, and the merge of one record into it.                 *)
(***************************************************************************)
\* str::to_lowercase on the names that are typed here
to_lowercase(s) == IF s = "Apple" THEN "apple" ELSE s

get_client_name(self) == unwrap(self.client).client_name

get_client_id(self) == unwrap(self.client).id

\* a merge that writes the merged entry at every position of the document
serialize_config_merging_everywhere(client_repositories, deserialized_config) ==
    IF is_none(deserialized_config)
    THEN IF is_none(client_repositories) THEN Exit("DATAERR")
         ELSE Ok(<<unwrap(client_repositories)>>)
    ELSE IF is_none(client_repositories) THEN Ok(unwrap(deserialized_config))
    ELSE LET config_doc == unwrap(deserialized_config)
             record == unwrap(client_repositories)
         IN IF is_none(record.repositories) \/ is_none(record.client) THEN Panic
            ELSE IF unwrap(record.repositories) = <<>> THEN Panic
            ELSE LET repository == unwrap(record.repositories)[1]
                     client_name == unwrap(record.client).client_name
                 IN IF \E i \in DOMAIN config_doc :
                          get_client_name(config_doc[i]) = client_name
                    THEN Ok([i \in DOMAIN config_doc |->
                               [ClientRepositories(
                                    Some(Append(unwrap(config_doc[i].repositories),
                                                repository)))
                                  EXCEPT !.requires_approval = record.requires_approval,
                                         !.approver = record.approver,
                                         !.client = record.client,
                                         !.user = record.user]])
                    ELSE Ok(Append(config_doc, record))

\* a merge that appends every repository of the record
serialize_config_appending_all(client_repositories, deserialized_config) ==
    IF is_none(deserialized_config)
    THEN IF is_none(client_repositories) THEN Exit("DATAERR")
         ELSE Ok(<<unwrap(client_repositories)>>)
    ELSE IF is_none(client_repositories) THEN Ok(unwrap(deserialized_config))
    ELSE LET config_doc == unwrap(deserialized_config)
             record == unwrap(client_repositories)
         IN IF is_none(record.repositories) \/ is_none(record.client) THEN Panic
            ELSE IF unwrap(record.repositories) = <<>> THEN Panic
            ELSE LET repository == unwrap(record.repositories)[1]
                     client_name == unwrap(record.client).client_name
                     same_client(c) == get_client_name(c) = client_name
                 IN IF \E i \in DOMAIN config_doc : same_client(config_doc[i])
                    THEN IF \E i \in DOMAIN config_doc :
                               /\ same_client(config_doc[i])
                               /\ is_none(config_doc[i].repositories)
                         THEN Panic
                         ELSE Ok([i \in DOMAIN config_doc |->
                               IF same_client(config_doc[i])
                               THEN [ClientRepositories(
                                        Some(unwrap(config_doc[i].repositories)
                                                 \o unwrap(record.repositories)))
                                      EXCEPT !.requires_approval = record.requires_approval,
                                             !.approver = record.approver,
                                             !.client = record.client,
                                             !.user = record.user]
                               ELSE config_doc[i]])
                    ELSE Ok(Append(config_doc, record))

\* the document that is written to the file (the value that is serialised):
\* the record alone when there is no document, the document alone when there
\* is no record; otherwise the first repository of the record is appended to
\* every entry whose client name equals the record's, which takes the
\* record's client, user and approver, and a record whose client name no
\* entry has is pushed to the end
serialize_config(client_repositories, deserialized_config) ==
    IF is_none(deserialized_config)
    THEN IF is_none(client_repositories) THEN Exit("DATAERR")
         ELSE Ok(<<unwrap(client_repositories)>>)
    ELSE IF is_none(client_repositories) THEN Ok(unwrap(deserialized_config))
    ELSE LET config_doc == unwrap(deserialized_config)
             record == unwrap(client_repositories)
         IN IF is_none(record.repositories) \/ is_none(record.client) THEN Panic
            ELSE IF unwrap(record.repositories) = <<>> THEN Panic
            ELSE LET repository == unwrap(record.repositories)[1]
                     client_name == unwrap(record.client).client_name
                     same_client(c) == get_client_name(c) = client_name
                 IN IF \E i \in DOMAIN config_doc : same_client(config_doc[i])
                    THEN IF \E i \in DOMAIN config_doc :
                               /\ same_client(config_doc[i])
                               /\ is_none(config_doc[i].repositories)
                         THEN Panic
                         ELSE Ok([i \in DOMAIN config_doc |->
                               IF same_client(config_doc[i])
                               THEN [ClientRepositories(
                                        Some(Append(unwrap(config_doc[i].repositories),
                                                    repository)))
                                      EXCEPT !.requires_approval = record.requires_approval,
                                             !.approver = record.approver,
                                             !.client = record.client,
                                             !.user = record.user]
                               ELSE config_doc[i]])
                    ELSE Ok(Append(config_doc, record))

(***************************************************************************)
(* SpecMerge: the merge as a function of the record and the document.      *)
(***************************************************************************)
\* the most entries of a document that is merged into
MaxClients == 2

\* the clients of the documents: two names that differ in case only, and one
\* name under two ids (a client typed again when a repository is onboarded)
MergeClients ==
    {[id |-> "id1", client_name |-> "apple"], [id |-> "id2", client_name |-> "Apple"],
     [id |-> "id3", client_name |-> "beta"], [id |-> "id4", client_name |-> "apple"]}

\* the client of the record that is merged: one of those, or one that no
\* document has
RecordClients == MergeClients \cup {[id |-> "id5", client_name |-> "gamma"]}

\* a repository of a client with the index of its log
MergeRepository(namespace, of_client, log) ==
    [Repository(namespace) EXCEPT !.client_id = Some(of_client.id),
                                  !.client_name = Some(of_client.client_name),
                                  !.name = Some("Jim Jones"),
                                  !.git_log_dates = Some(year_month_map_of(log))]

\* the repositories of an entry of the document, as they were stored, and
\* those of the record, recomputed since: none, one or two
MergeRepositories(of_client, log) ==
    {<<>>,
     <<MergeRepository("autolog", of_client, log)>>,
     <<MergeRepository("pila-app", of_client, log)>>,
     <<MergeRepository("autolog", of_client, log),
       MergeRepository("pila-app", of_client, log)>>}

MergeRecords(clients, log, by_alias) ==
    UNION {{[ClientRepositories(Some(repositories)) EXCEPT
                !.client = Some(c),
                !.user = Some([name |-> "Jim Jones", is_alias |-> by_alias])] :
              repositories \in MergeRepositories(c, log)} : c \in clients}

\* the records with and without an approver
MergeApprovals(records) ==
    records \cup {[r EXCEPT !.requires_approval = TRUE,
                            !.approver = Some([approvers_name |-> "Ann"])] :
                     r \in records}

MergeDocuments ==
    LET entries == MergeRecords(MergeClients, {<<2024, 2, 1>>}, FALSE)
    IN {doc \in UNION {[1..n -> entries] : n \in 1..MaxClients} :
          \A i, j \in DOMAIN doc :
             get_client_id(doc[i]) = get_client_id(doc[j]) => i = j}

MergeInit ==
    /\ \E doc \in {None} \cup {Some(d) : d \in MergeDocuments},
          record \in {None} \cup
                     {Some(r) : r \in MergeApprovals(
                                           MergeRecords(RecordClients, LogDates, TRUE))} :
          merge = [phase |-> "called", client_repositories |-> record,
                   deserialized_config |-> doc]
    /\ alloc = Idle /\ client = Idle /\ gitlog = Idle /\ run = Idle /\ config = Idle /\ history = Idle /\ race = Idle

Serialize ==
    /\ merge.phase = "called"
    /\ \E written \in {serialize_config(merge.client_repositories,
                                        merge.deserialized_config)} :
          merge' = [merge EXCEPT !.phase = "returned"] @@ [written |-> written]
    /\ UNCHANGED <<alloc, client, gitlog, run, config, history, race>>

MergeNext == Serialize

SpecMerge == MergeInit /\ [][MergeNext]_vars

(***************************************************************************)
(* Claims about the merge of a record into a document.                     *)
(***************************************************************************)
\* a merge of a record into a document has returned a document
Merged ==
    /\ merge.phase = "returned"
    /\ is_some(merge.client_repositories)
    /\ is_some(merge.deserialized_config)
    /\ merge.written.kind = "Ok"

\* the entry is an entry of the client of the merged record: the merge tells
\* the clients apart by their names
OfRecord(entry) ==
    get_client_name(entry) = get_client_name(unwrap(merge.client_repositories))

C6_WitnessAppended ==
    /\ Merged
    /\ LET doc == unwrap(merge.deserialized_config)
       IN /\ Len(doc) = 2 /\ Len(merge.written.value) = 3
          /\ \A i \in DOMAIN doc : ~OfRecord(doc[i])

\* C7: merging a record of a client of the document whose repository (the one
\* the record carries first, which is the one merged) has a namespace that
\* the client's entry already holds changes that repository only: the entry
\* has as many repositories as before, no two of them have the same
\* namespace, and the repositories of the other namespaces are as they were
C7_RepositoryReplaced ==
    Merged =>
      LET doc == unwrap(merge.deserialized_config)
          written == merge.written.value
          namespace == unwrap(unwrap(merge.client_repositories).repositories)[1].namespace
      IN \A i \in DOMAIN doc :
            LET before == unwrap(doc[i].repositories)
                after == unwrap(written[i].repositories)
            IN (OfRecord(doc[i]) /\ \E j \in DOMAIN before : before[j].namespace = namespace)
               => /\ Len(after) = Len(before)
                  /\ \A j, k \in DOMAIN after :
                        after[j].namespace = after[k].namespace => j = k
                  /\ \A j \in DOMAIN before :
                        before[j].namespace # namespace => after[j] = before[j]

(***************************************************************************)
(* Claims about the edit of one day of a repository.                       *)
(***************************************************************************)
\* C10: an edit of one day with a valid hour h, day d, month m and year y
\* whose month the repository's timesheet holds succeeds for every d from 1
\* to the number of days of the month, the last day included, and changes
\* exactly the entry at index d - 1 of the month (the d-th of the sequence):
\* it gets hours = h and user_edited = true, its weekend flag stays, and every
\* other entry of the repository's timesheet stays
C10_EditSetsDay ==
    \A i \in DOMAIN ClientRepos, ym \in EditMonths, hour \in EditHours :
       i \in HavingMonth(<<ym[1], ym[2], 1>>) =>
          \A day \in 1..CalendarDays(ym[1], ym[2]) :
             \A edited \in {update_hours_on_month_day_entry(
                                ClientRepos[i],
                                <<Some(hour), Some(day), Some(ym[2]), Some(ym[1])>>)} :
                /\ edited.kind = "Ok"
                /\ edited.value =
                      [ClientRepos[i] EXCEPT
                          !.timesheet = Some([unwrap(@) EXCEPT
                              ![to_string(ym[1])][to_string(ym[2])][day] =
                                  [@ EXCEPT !.hours = f64(hour),
                                            !.user_edited = TRUE]])]

(***************************************************************************)
(* The commands on the config file.  A command reads the document from the *)
(* file, looks the client or the repository up, and writes the document    *)
(* back; a command that exits or panics before it writes leaves the file.  *)
(* A result is Ok(the file afterwards), the file being None when there is  *)
(* none and Some(document) otherwise.                                      *)
(***************************************************************************)
\* a replacement that adds the record when no entry has its id
update_client_repositories_or_push(deserialized_config, old_client_repos) ==
    IF \E i \in DOMAIN deserialized_config :
          get_client_id(deserialized_config[i]) = get_client_id(old_client_repos)
    THEN [i \in DOMAIN deserialized_config |->
            IF get_client_id(deserialized_config[i]) = get_client_id(old_client_repos)
            THEN old_client_repos
            ELSE deserialized_config[i]]
    ELSE Append(deserialized_config, old_client_repos)

\* the entry that has the id of the record is replaced by the record
update_client_repositories(deserialized_config, old_client_repos) ==
    [i \in DOMAIN deserialized_config |->
        IF get_client_id(deserialized_config[i]) = get_client_id(old_client_repos)
        THEN old_client_repos
        ELSE deserialized_config[i]]

\* Ok(<<found repository, found client>>).  With a client name: the last
\* entry if its name is that name in lowercase, and CANTCREAT if it is not.
\* Without: the last entry that holds a repository of the namespace in
\* lowercase, and the first such repository of it.
check_for_client_or_repo_in_buffer(deserialized_config, repo_namespace, client_name) ==
    IF is_some(client_name)
    THEN IF deserialized_config = <<>> THEN Ok(<<None, None>>)
         ELSE LET last == deserialized_config[Len(deserialized_config)]
              IN IF to_lowercase(get_client_name(last)) = to_lowercase(unwrap(client_name))
                 THEN Ok(<<None, Some(last)>>)
                 ELSE Exit("CANTCREAT")
    ELSE IF \E i \in DOMAIN deserialized_config :
               is_none(deserialized_config[i].repositories)
         THEN Panic
    ELSE IF /\ is_none(repo_namespace)
            /\ \E i \in DOMAIN deserialized_config :
                  unwrap(deserialized_config[i].repositories) # <<>>
         THEN Panic
    ELSE LET named(repository) ==
                 to_lowercase(repository.namespace) = to_lowercase(unwrap(repo_namespace))
             holds(i) ==
                 \E j \in DOMAIN unwrap(deserialized_config[i].repositories) :
                    named(unwrap(deserialized_config[i].repositories)[j])
             holders == {i \in DOMAIN deserialized_config : holds(i)}
         IN IF holders = {} THEN Ok(<<None, None>>)
            ELSE LET i == CHOOSE i \in holders : \A k \in holders : k <= i
                     found == SelectSeq(unwrap(deserialized_config[i].repositories), named)
                 IN Ok(<<Some(found[1]), Some(deserialized_config[i])>>)

update_client_name(self, value) ==
    [self EXCEPT
       !.client = IF is_none(@) THEN @
                  ELSE Some([unwrap(@) EXCEPT !.client_name = value]),
       !.repositories =
           IF is_none(@) THEN @
           ELSE Some([j \in DOMAIN unwrap(@) |->
                        [unwrap(@)[j] EXCEPT !.client_name = Some(value)]])]

remove_repository_by_namespace(self, namespace) ==
    LET kept(repo) == to_lowercase(repo.namespace) # to_lowercase(namespace)
    IN [self EXCEPT !.repositories =
                       IF is_none(@) THEN @ ELSE Some(SelectSeq(unwrap(@), kept))]

\* the repository of the path that is being initialised, with the client it
\* is onboarded for
onboarding(namespace, client_id, client_name) ==
    [Repository(namespace) EXCEPT !.client_id = Some(client_id),
                                  !.client_name = Some(client_name),
                                  !.name = Some("Jim Jones")]

\* the selection is the name of a client of the document, whose first entry
\* of that name becomes the record and whose client the repository takes, or
\* "Create a new client", and then the name that is typed and a new id are
\* the repository's: <<record, repository>>
prompt_for_client_then_onboard(deserialized_config, namespace, selection, typed, id) ==
    IF selection = "Create a new client"
    THEN <<ClientRepositories(None), onboarding(namespace, id, typed)>>
    ELSE LET named(entry) == get_client_name(entry) = selection
             chosen == SelectSeq(deserialized_config, named)[1]
         IN <<chosen, onboarding(namespace, unwrap(chosen.client).id,
                                 unwrap(chosen.client).client_name)>>

\* with a namespace (options[1], TLA index 2) the namespace or the path of
\* the repository is asked for with the present one as the initial text,
\* which is unwrapped: a panic for a repository that was not found.  Without
\* one: the client name that is typed for "Client company name"; the other
\* things that can be updated are no fields of these records
prompt_for_update(client_repositories, repository, options, typed) ==
    IF is_none(client_repositories.client) \/ is_none(client_repositories.user)
    THEN Panic
    ELSE IF is_some(options[2])
         THEN IF is_none(repository) THEN Panic ELSE Ok(client_repositories)
    ELSE IF is_some(typed)
         THEN Ok(update_client_name(client_repositories, unwrap(typed)))
         ELSE Ok(client_repositories)

\* a removal by namespace that drops the entry whose last repository left
prompt_for_client_repo_removal_dropping_entry(options, deserialized_config, confirm) ==
    LET named(entry) ==
            to_lowercase(get_client_name(entry)) = to_lowercase(unwrap(options[1]))
        other(entry) == ~named(entry)
        has_repositories(entry) ==
            is_none(entry.repositories) \/ Len(unwrap(entry.repositories)) > 0
    IN IF is_none(options[1]) THEN Panic
       ELSE IF ~confirm THEN Ok(deserialized_config)
       ELSE IF is_some(options[2])
       THEN LET matching == {i \in DOMAIN deserialized_config :
                                named(deserialized_config[i])}
            IN IF matching = {} THEN Ok(deserialized_config)
               ELSE LET i == CHOOSE i \in matching : \A k \in matching : i <= k
                        removed == remove_repository_by_namespace(
                                       deserialized_config[i], unwrap(options[2]))
                    IN IF Len(unwrap(removed.repositories))
                            # Len(unwrap(deserialized_config[i].repositories))
                       THEN Ok(SelectSeq([deserialized_config EXCEPT ![i] = removed],
                                         has_repositories))
                       ELSE Exit("OK")
       ELSE LET kept == SelectSeq(deserialized_config, other)
            IN IF Len(kept) # Len(deserialized_config) THEN Ok(kept) ELSE Exit("OK")

\* with a namespace: the repositories of that namespace leave the first entry
\* whose name is the client's, in lowercase, and the process exits if it held
\* none; without: the entries of that name leave the document
prompt_for_client_repo_removal(options, deserialized_config, confirm) ==
    LET named(entry) ==
            to_lowercase(get_client_name(entry)) = to_lowercase(unwrap(options[1]))
        other(entry) == ~named(entry)
    IN IF is_none(options[1]) THEN Panic
       ELSE IF ~confirm THEN Ok(deserialized_config)
       ELSE IF is_some(options[2])
       THEN LET matching == {i \in DOMAIN deserialized_config :
                                named(deserialized_config[i])}
            IN IF matching = {} THEN Ok(deserialized_config)
               ELSE LET i == CHOOSE i \in matching : \A k \in matching : i <= k
                        removed == remove_repository_by_namespace(
                                       deserialized_config[i], unwrap(options[2]))
                    IN IF Len(unwrap(removed.repositories))
                            # Len(unwrap(deserialized_config[i].repositories))
                       THEN Ok([deserialized_config EXCEPT ![i] = removed])
                       ELSE Exit("OK")
       ELSE LET kept == SelectSeq(deserialized_config, other)
            IN IF Len(kept) # Len(deserialized_config) THEN Ok(kept) ELSE Exit("OK")

\* Config::write_to_config_file: the file holds what serialize_config gives
write_to_config_file(client_repositories, deserialized_config) ==
    LET write(json) ==
            IF json.kind = "Ok"
            THEN [kind |-> "Ok", value |-> Some(json.value), writes |-> 1,
                  deleted |-> FALSE]
            ELSE json
    IN let_in(write, serialize_config(client_repositories, deserialized_config))

\* Init::init on the repository of the namespace.  Without a file the user is
\* onboarded with a new client and the record becomes the document; with one,
\* a repository that is found is already initialised, and one that is not is
\* onboarded for the selected client and merged into the document
init(file, namespace, selection, typed, id, git) ==
    IF is_none(file)
    THEN LET write(fetched) ==
                 IF fetched.kind = "Ok"
                 THEN write_to_config_file(Some(fetched.value), None)
                 ELSE fetched
         IN let_in(write, fetch_interaction_data(
                              ClientRepositories(None),
                              onboarding(namespace, id, typed), git))
    ELSE LET deserialized_config == unwrap(file)
             write(fetched) ==
                 IF fetched.kind = "Ok"
                 THEN write_to_config_file(Some(fetched.value), Some(deserialized_config))
                 ELSE fetched
             onboard(prompted) ==
                 let_in(write, fetch_interaction_data(prompted[1], prompted[2], git))
             look(found) ==
                 IF found.kind # "Ok" THEN found
                 ELSE IF is_some(found.value[1]) /\ is_some(found.value[2])
                 THEN Exit("OK")
                 ELSE let_in(onboard, prompt_for_client_then_onboard(
                                 deserialized_config, namespace, selection, typed, id))
         IN let_in(look, check_for_client_or_repo_in_buffer(
                             deserialized_config, Some(namespace), None))

\* Edit::edit with options = <<namespace, hour, day, month, year>>: the hour,
\* the day, the month and the year are those of the edit of the day
edit(file, options, git) ==
    IF is_none(file) THEN Exit("OK")
    ELSE LET deserialized_config == unwrap(file)
             write(fetched) ==
                 IF fetched.kind = "Ok"
                 THEN write_to_config_file(
                          None, Some(update_client_repositories(
                                         deserialized_config, fetched.value)))
                 ELSE fetched
             set(client_repositories, edited) ==
                 IF edited.kind = "Err" THEN Exit("DATAERR")
                 ELSE IF edited.kind # "Ok" THEN edited
                 ELSE let_in(write, generate_and_compare(
                                 set_values(client_repositories, edited.value), git))
             update_hours(found_repo, pushed) ==
                 LET set_pushed(edited) == set(pushed.value, edited)
                 IN IF pushed.kind # "Ok" THEN pushed
                    ELSE let_in(set_pushed, update_hours_on_month_day_entry(
                                                found_repo, SubSeq(options, 2, 5)))
             look(found) ==
                 LET update_found(pushed) == update_hours(unwrap(found.value[1]), pushed)
                 IN IF found.kind # "Ok" THEN found
                    ELSE IF is_none(found.value[2]) THEN Exit("OK")
                    ELSE let_in(update_found,
                                generate_and_compare(unwrap(found.value[2]), git))
         IN let_in(look, check_for_client_or_repo_in_buffer(
                             deserialized_config, options[1], None))

\* Update::update with options = <<client, namespace>>
update(file, options, typed, git) ==
    IF is_none(file) THEN Exit("OK")
    ELSE LET deserialized_config == unwrap(file)
             write(prompted) ==
                 IF prompted.kind = "Ok"
                 THEN write_to_config_file(
                          None, Some(update_client_repositories(
                                         deserialized_config, prompted.value)))
                 ELSE prompted
             prompt(found_repo, pushed) ==
                 IF pushed.kind # "Ok" THEN pushed
                 ELSE let_in(write, prompt_for_update(pushed.value, found_repo,
                                                      options, typed))
             look(found) ==
                 LET prompt_found(pushed) == prompt(found.value[1], pushed)
                 IN IF found.kind # "Ok" THEN found
                    ELSE IF is_none(found.value[2]) THEN Exit("OK")
                    ELSE let_in(prompt_found,
                                generate_and_compare(unwrap(found.value[2]), git))
         IN let_in(look, check_for_client_or_repo_in_buffer(
                             deserialized_config, options[2], options[1]))

\* a remove that writes the document that is left in every case
remove_writing_empty(file, options, confirm) ==
    IF is_none(file) THEN Exit("OK")
    ELSE LET deserialized_config == unwrap(file)
             write(prompted) ==
                 IF prompted.kind # "Ok" THEN prompted
                 ELSE write_to_config_file(None, Some(prompted.value))
             look(found) ==
                 IF found.kind # "Ok" THEN found
                 ELSE IF is_none(found.value[2]) THEN Exit("OK")
                 ELSE let_in(write, prompt_for_client_repo_removal(
                                        options, deserialized_config, confirm))
         IN let_in(look, check_for_client_or_repo_in_buffer(
                             deserialized_config, options[2], options[1]))

\* Remove::remove with options = <<client, namespace>>: a document that is
\* left without entries is not written, the file is deleted
remove(file, options, confirm) ==
    IF is_none(file) THEN Exit("OK")
    ELSE LET deserialized_config == unwrap(file)
             write(prompted) ==
                 IF prompted.kind # "Ok" THEN prompted
                 ELSE IF Len(prompted.value) = 0
                 THEN [kind |-> "Ok", value |-> None, writes |-> 0, deleted |-> TRUE]
                 ELSE write_to_config_file(None, Some(prompted.value))
             look(found) ==
                 IF found.kind # "Ok" THEN found
                 ELSE IF is_none(found.value[2]) THEN Exit("OK")
                 ELSE let_in(write, prompt_for_client_repo_removal(
                                        options, deserialized_config, confirm))
         IN let_in(look, check_for_client_or_repo_in_buffer(
                             deserialized_config, options[2], options[1]))

(***************************************************************************)
(* SpecConfig: the config file under the commands init, edit, update and   *)
(* remove, from the state in which there is no file.                       *)
(***************************************************************************)
\* the most commands of a run
MaxCommands == 3

\* the repositories on the disk and the names of clients that are typed
ConfigNamespaces == {"autolog", "pila-app"}

ClientNames == {"apple", "Apple", "beta"}

\* the ids that nanoid!() gives, one after the other
NanoIds == <<"id1", "id2", "id3", "id4", "id5", "id6">>

ConfigInit ==
    /\ config = None
    /\ gitlog \in [ConfigNamespaces -> {LogDates, {<<2024, 2, 1>>}}]
    /\ run = [op |-> "none", result |-> "Ok", options |-> <<>>, writes |-> 0,
              deleted |-> FALSE, ids |-> 0, steps |-> 0]
    /\ alloc = Idle /\ client = Idle /\ merge = Idle /\ history = Idle /\ race = Idle

\* what a command leaves: the file that it wrote, or the file as it was
Ran(op, options, ids, result) ==
    /\ config' = IF result.kind = "Ok" THEN result.value ELSE config
    /\ run' = [op |-> op, result |-> result.kind, options |-> options,
               writes |-> IF result.kind = "Ok" THEN result.writes ELSE 0,
               deleted |-> IF result.kind = "Ok" THEN result.deleted ELSE FALSE,
               ids |-> ids, steps |-> run.steps + 1]
    /\ UNCHANGED <<gitlog, alloc, client, merge, history, race>>

InitCommand ==
    \E namespace \in ConfigNamespaces, typed \in ClientNames :
      \E selection \in {"Create a new client"} \cup
                       (IF is_none(config) THEN {}
                        ELSE {get_client_name(unwrap(config)[i]) :
                                 i \in DOMAIN unwrap(config)}) :
        /\ run.steps < MaxCommands
        /\ run.ids < Len(NanoIds)
        /\ \E result \in {init(config, namespace, selection, typed,
                               NanoIds[run.ids + 1], gitlog)} :
              Ran("init", <<namespace>>, run.ids + 1, result)

EditCommand ==
    \E namespace \in ConfigNamespaces, ym \in EditMonths, hour \in EditHours :
      \E day \in {1, get_days_from_month(ym[1], ym[2])} :
        /\ run.steps < MaxCommands
        /\ \E result \in {edit(config, <<Some(namespace), Some(hour), Some(day),
                                         Some(ym[2]), Some(ym[1])>>, gitlog)} :
              Ran("edit", <<namespace, day>>, run.ids, result)

UpdateCommand ==
    \E name \in ClientNames,
       namespace \in {None} \cup {Some(n) : n \in ConfigNamespaces},
       typed \in {None} \cup {Some(n) : n \in ClientNames} :
        /\ run.steps < MaxCommands
        /\ \E result \in {update(config, <<Some(name), namespace>>, typed, gitlog)} :
              Ran("update", <<name, namespace>>, run.ids, result)

RemoveCommand ==
    \E name \in ClientNames,
       namespace \in {None} \cup {Some(n) : n \in ConfigNamespaces},
       confirm \in BOOLEAN :
        /\ run.steps < MaxCommands
        /\ \E result \in {remove(config, <<Some(name), namespace>>, confirm)} :
              Ran("remove", <<name, namespace, confirm>>, run.ids, result)

ConfigNext == InitCommand \/ EditCommand \/ UpdateCommand \/ RemoveCommand

SpecConfig == ConfigInit /\ [][ConfigNext]_vars

(***************************************************************************)
(* Claims about the documents that the commands write.                     *)
(***************************************************************************)
\* C8: in every document that init, edit, update (the renaming of a client
\* included) and remove write, starting without a file, the identities of the
\* clients are unique: no two entries have the same client id, and no two
\* have the same client name when the names are compared without case
C8_ClientsUnique ==
    is_some(config) =>
      \A i, j \in DOMAIN unwrap(config) :
         (\/ get_client_id(unwrap(config)[i]) = get_client_id(unwrap(config)[j])
          \/ to_lowercase(get_client_name(unwrap(config)[i]))
               = to_lowercase(get_client_name(unwrap(config)[j])))
         => i = j

\* the entries of the document that hold a repository of the namespace
HoldersOf(file, namespace) ==
    IF is_none(file) THEN {}
    ELSE {i \in DOMAIN unwrap(file) :
            \E j \in DOMAIN unwrap(unwrap(file)[i].repositories) :
               unwrap(unwrap(file)[i].repositories)[j].namespace = namespace}

\* C9: an edit of a day of one repository of a client with several
\* repositories leaves the sibling repositories of the client in the written
\* document as they were: the entry has as many repositories as before, and
\* every sibling has its namespace, its index of worked days and its
\* timesheet of before
C9_SiblingsUntouched ==
    [][(run'.op = "edit" /\ run'.result = "Ok") =>
         \A i \in HoldersOf(config, run'.options[1]) :
            LET before == unwrap(unwrap(config)[i].repositories)
                after == unwrap(unwrap(config')[i].repositories)
            IN /\ Len(after) = Len(before)
               /\ \A j \in DOMAIN before :
                     before[j].namespace # run'.options[1] =>
                        /\ after[j].namespace = before[j].namespace
                        /\ after[j].git_log_dates = before[j].git_log_dates
                        /\ after[j].timesheet = before[j].timesheet]_vars

(***************************************************************************)
(* Claims about the values of the day entries.                             *)
(***************************************************************************)
\* C11: in every state that recomputations of the timesheets and edits of
\* single days reach, every day entry of every repository's timesheet has
\* hours from 0 to 8
C11_HoursInRange ==
    \A i \in DOMAIN ClientRepos :
       is_some(ClientRepos[i].timesheet) =>
          \A ys \in DOMAIN unwrap(ClientRepos[i].timesheet) :
             \A ms \in DOMAIN unwrap(ClientRepos[i].timesheet)[ys] :
                \A month \in {unwrap(ClientRepos[i].timesheet)[ys][ms]} :
                   \A d \in DOMAIN month :
                      0 <= month[d].hours /\ month[d].hours <= f64(FullDay)

(***************************************************************************)
(* Claims about the removal of repositories and clients.                   *)
(***************************************************************************)
\* the entry is of the client of that name, the names compared in lowercase
Named(entry, client_name) ==
    to_lowercase(get_client_name(entry)) = to_lowercase(client_name)

\* the entry holds a repository of the namespace, compared in lowercase
Holds(entry, namespace) ==
    \E j \in DOMAIN unwrap(entry.repositories) :
       to_lowercase(unwrap(entry.repositories)[j].namespace) = to_lowercase(namespace)

\* the step is a remove command on a document, and the options of it
Removing == run'.op = "remove" /\ is_some(config)

RemovedClient == run'.options[1]

RemovedNamespace == run'.options[2]

Confirmed == run'.options[3]

\* C12: a confirmed remove of client c and namespace n, when the entry of c
\* (names compared without case) holds a repository of n (compared without
\* case), makes the repository list of that client shorter by exactly one,
\* removes no repository of another namespace, and leaves the entries of all
\* other clients as they were
C12_RemoveShrinksByOne ==
    [][(Removing /\ Confirmed /\ is_some(RemovedNamespace)) =>
         LET doc == unwrap(config)
             n == unwrap(RemovedNamespace)
             other(repo) == to_lowercase(repo.namespace) # to_lowercase(n)
         IN (\E i \in DOMAIN doc : Named(doc[i], RemovedClient) /\ Holds(doc[i], n))
            => /\ is_some(config')
               /\ Len(unwrap(config')) = Len(doc)
               /\ \A i \in DOMAIN doc :
                     IF Named(doc[i], RemovedClient) /\ Holds(doc[i], n)
                     THEN /\ Len(unwrap(unwrap(config')[i].repositories))
                               = Len(unwrap(doc[i].repositories)) - 1
                          /\ unwrap(config')[i] =
                               [doc[i] EXCEPT !.repositories =
                                   Some(SelectSeq(unwrap(@), other))]
                     ELSE unwrap(config')[i] = doc[i]]_vars

\* the command of the step names a client or a namespace that the document
\* does not have (a remove is one that the user confirms)
NamesAbsent ==
    /\ is_some(config)
    /\ LET doc == unwrap(config) IN
       \/ /\ run'.op = "edit"
          /\ \A i \in DOMAIN doc : ~Holds(doc[i], run'.options[1])
       \/ /\ run'.op \in {"remove", "update"}
          /\ run'.op = "remove" => run'.options[3]
          /\ \/ \A i \in DOMAIN doc : ~Named(doc[i], run'.options[1])
             \/ /\ is_some(run'.options[2])
                /\ \A i \in DOMAIN doc :
                      Named(doc[i], run'.options[1])
                         => ~Holds(doc[i], unwrap(run'.options[2]))

\* C13: an edit, a remove or an update that names a client or a namespace
\* that the document does not have reports that it was not found and leaves
\* the document as it was: nothing of it differs, and the file is not written
\* with another content
C13_NotFoundLeavesDocument ==
    [][NamesAbsent => run'.result = "exit" /\ config' = config]_vars

\* C14: a confirmed remove of the client of name c deletes every entry whose
\* client name is c, compared without case, with all its repositories, and
\* leaves the entries of the other clients as they were and in their order
C14_RemoveClient ==
    [][(Removing /\ Confirmed /\ is_none(RemovedNamespace)) =>
         LET doc == unwrap(config)
             other(entry) == ~Named(entry, RemovedClient)
         IN (\E i \in DOMAIN doc : Named(doc[i], RemovedClient))
            => config' = IF SelectSeq(doc, other) = <<>> THEN None
                         ELSE Some(SelectSeq(doc, other))]_vars

\* C15: at the end of a remove, a document without entries is not written
\* and the file is deleted; a document that has an entry is written, once,
\* and the file is not deleted
C15_DeletedOrWrittenOnce ==
    [][(Removing /\ run'.result = "Ok") =>
         \A left \in {prompt_for_client_repo_removal(
                          <<Some(RemovedClient), RemovedNamespace>>,
                          unwrap(config), Confirmed).value} :
            /\ config' # Some(<<>>)
            /\ IF Len(left) = 0
               THEN run'.deleted /\ run'.writes = 0 /\ config' = None
               ELSE ~run'.deleted /\ run'.writes = 1 /\ config' = Some(left)]_vars

\* the last client was removed and the file deleted
C15_Witness ==
    run.op = "remove" /\ run.result = "Ok" /\ run.deleted /\ config = None

\* a client was removed, another one is left and the document was written
C15_WitnessWritten ==
    /\ run.op = "remove" /\ run.result = "Ok" /\ run.options[3]
    /\ is_none(run.options[2])
    /\ run.writes = 1 /\ is_some(config) /\ Len(unwrap(config)) = 1


(***************************************************************************)
(* The text of a git log (timesheet.rs, parse_git_log_dates_from_git_      *)
(* history).  The text is the sequence of its lines; of a line the model   *)
(* keeps the four fields that the pattern names: the word before the       *)
(* comma, the digits of the day, the word of the month and the digits of   *)
(* the year.  A line without these fields has empty ones.                  *)
(***************************************************************************)
Line(weekday, day, month, year) ==
    [weekday |-> weekday, day |-> day, month |-> month, year |-> year]

\* the words of three letters that the lines of the model hold
Letters3 ==
    {"Mon", "Tue", "Wed", "Thu", "Fri", "Sat", "Sun", "Jan", "Feb", "Mar", "Apr",
     "May", "Jun", "Jul", "Aug", "Sep", "Oct", "Nov", "Dec", "Foo"}

\* ([a-zA-Z]{3}),\s(?P<day>\d{1,2})\s(?P<month>[a-zA-Z]{3})\s(?P<year>\d{4})...
is_match(line) ==
    /\ line.weekday \in Letters3
    /\ Len(line.day) \in {1, 2}
    /\ line.month \in Letters3
    /\ Len(line.year) = 4

\* regex.captures_iter(&git_history): the lines that match, in their order
captures_iter(git_history) == SelectSeq(git_history, is_match)

\* str::parse of a string of digits
RECURSIVE parse_digits(_)
parse_digits(s) ==
    IF Len(s) = 0 THEN 0
    ELSE 10 * parse_digits(SubSeq(s, 1, Len(s) - 1)) + s[Len(s)]

\* chrono's names of the months and of the days of the week
short_months ==
    <<"Jan", "Feb", "Mar", "Apr", "May", "Jun", "Jul", "Aug", "Sep", "Oct", "Nov", "Dec">>

short_weekdays == <<"Mon", "Tue", "Wed", "Thu", "Fri", "Sat", "Sun">>

\* DateTime::parse_from_rfc2822(&cap[0]) followed by .date(): Ok(<<year, month,
\* day>>) for a date of the calendar whose day of the week is the one named,
\* an Err otherwise
parse_from_rfc2822(cap) ==
    IF ~Contains(short_months, cap.month) \/ ~Contains(short_weekdays, cap.weekday)
    THEN Err("invalid")
    ELSE LET year  == parse_digits(cap.year)
             month == CHOOSE m \in DOMAIN short_months : short_months[m] = cap.month
             day   == parse_digits(cap.day)
         IN IF day < 1 \/ day > get_days_from_month(year, month)
            THEN Err("out of range")
            ELSE IF short_weekdays[format_u(year, month, day)] # cap.weekday
            THEN Err("impossible")
            ELSE Ok(<<year, month, day>>)

\* year_month_map.entry(year) ... .or_insert(...): the day joins the set of
\* its month under its year
insert_day_overwriting(year_month_map, date) ==
    LET year == date[1]  month == date[2]  day == date[3] IN
    IF year \in DOMAIN year_month_map
    THEN [year_month_map EXCEPT ![year] = (month :> {day}) @@ @]
    ELSE (year :> (month :> {day})) @@ year_month_map

insert_day(year_month_map, date) ==
    LET year == date[1]  month == date[2]  day == date[3] IN
    IF year \in DOMAIN year_month_map
    THEN [year_month_map EXCEPT ![year] =
             IF month \in DOMAIN @
             THEN [@ EXCEPT ![month] = @ \cup {day}]
             ELSE (month :> {day}) @@ @]
    ELSE (year :> (month :> {day})) @@ year_month_map

\* the loop over the captures: Ok(the index), or the panic of the unwrap of a
\* date that chrono refused
RECURSIVE year_month_map_from(_)
year_month_map_from(caps) ==
    IF Len(caps) = 0 THEN Ok(<<>>)
    ELSE LET insert(before) ==
                 IF before.kind # "Ok" THEN before
                 ELSE LET date_time == parse_from_rfc2822(caps[Len(caps)])
                      IN IF date_time.kind # "Ok" THEN Panic
                         ELSE Ok(insert_day(before.value, date_time.value))
         IN let_in(insert, year_month_map_from(SubSeq(caps, 1, Len(caps) - 1)))

\* the whole function, on the text
parse_git_log_dates_from_text(self, git_history) ==
    LET with_index(year_month_map) ==
            IF year_month_map.kind # "Ok" THEN year_month_map
            ELSE LET with_timesheet(dated) ==
                         IF is_none(dated.git_log_dates)
                         THEN Exit("DATAERR")
                         ELSE LET set(timesheet) ==
                                      IF timesheet.kind = "Ok"
                                      THEN Ok(set_timesheet(dated, timesheet.value))
                                      ELSE timesheet
                              IN let_in(set, get_timesheet_map_from_date_hashmap(
                                                 unwrap(dated.git_log_dates), dated, <<>>))
                 IN let_in(with_timesheet, set_git_log_dates(self, year_month_map.value))
    IN let_in(with_index, year_month_map_from(captures_iter(git_history)))

(***************************************************************************)
(* SpecParse: the parsing of a log text as a function of the text.         *)
(***************************************************************************)
\* the most lines of a log text
MaxLines == 3

\* the lines of the texts: two commits of one day (written with one and with
\* two digits), a second day of that month, a day of another year, a line that
\* is no date line, and three lines that match the pattern without being a
\* date: a 32nd day, a day of the week that the date is not, and a month that
\* does not exist
LogLines ==
    {Line("Thu", <<1>>, "Feb", <<2, 0, 2, 4>>),
     Line("Thu", <<0, 1>>, "Feb", <<2, 0, 2, 4>>),
     Line("Thu", <<2, 9>>, "Feb", <<2, 0, 2, 4>>),
     Line("Sun", <<3, 1>>, "Dec", <<2, 0, 2, 3>>),
     Line("", <<>>, "", <<>>),
     Line("Wed", <<3, 2>>, "Jan", <<2, 0, 2, 4>>),
     Line("Mon", <<1>>, "Feb", <<2, 0, 2, 4>>),
     Line("Thu", <<1>>, "Foo", <<2, 0, 2, 4>>)}

LogTexts == UNION {[1..n -> LogLines] : n \in 0..MaxLines}

ParseInit ==
    /\ history \in {[phase |-> "printed", git_history |-> text, result |-> None] :
                       text \in LogTexts}
    /\ alloc = Idle /\ client = Idle /\ gitlog = Idle /\ run = Idle
    /\ merge = Idle /\ config = Idle /\ race = Idle

Parse ==
    /\ history.phase = "printed"
    /\ history' = [history EXCEPT
           !.phase = "parsed",
           !.result = Some(parse_git_log_dates_from_text(
                               Repository("autolog"), history.git_history))]
    /\ UNCHANGED <<alloc, client, gitlog, run, merge, config, race>>

ParseNext == Parse

SpecParse == ParseInit /\ [][ParseNext]_vars

(***************************************************************************)
(* Claims about the parsing of the git log.                                *)
(***************************************************************************)
Parsed == history.phase = "parsed"

ParseResult == unwrap(history.result)

\* the date lines of the text: the lines that the pattern matches
DateLines == {i \in DOMAIN history.git_history : is_match(history.git_history[i])}

\* the calendar date that a date line writes, if it writes one
MonthNumber(word) ==
    CASE word = "Jan" -> 1 [] word = "Feb" -> 2 [] word = "Mar" -> 3
      [] word = "Apr" -> 4 [] word = "May" -> 5 [] word = "Jun" -> 6
      [] word = "Jul" -> 7 [] word = "Aug" -> 8 [] word = "Sep" -> 9
      [] word = "Oct" -> 10 [] word = "Nov" -> 11 [] word = "Dec" -> 12
      [] OTHER -> 0

DateWritten(line) ==
    <<parse_digits(line.year), MonthNumber(line.month), parse_digits(line.day)>>

WritesDate(line) ==
    LET date == DateWritten(line) IN
    /\ date[2] \in 1..12
    /\ date[3] \in 1..get_days_from_month(date[1], date[2])
    /\ line.weekday \in {"Mon", "Tue", "Wed", "Thu", "Fri", "Sat", "Sun"}
    /\ short_weekdays[format_u(date[1], date[2], date[3])] = line.weekday

IndexTriples(index) ==
    {<<y, m, d>> \in UNION {UNION {{y2} \X {m2} \X index[y2][m2] :
                                      m2 \in DOMAIN index[y2]} : y2 \in DOMAIN index} :
        TRUE}

\* C16: the index that parsing a log text yields holds exactly the calendar
\* dates of the date lines of the text, each once however many commits the day
\* has, each under the key of its own year and month.
C16_IndexIsDatesOfLines ==
    (Parsed /\ ParseResult.kind = "Ok") =>
        /\ is_some(ParseResult.value.git_log_dates)
        /\ IndexTriples(unwrap(ParseResult.value.git_log_dates))
               = {DateWritten(history.git_history[i]) : i \in DateLines}

\* two commits of one day, a second day of the month and a day of another year
C16_Witness ==
    /\ Parsed /\ ParseResult.kind = "Ok"
    /\ Len(history.git_history) = 3
    /\ \E i, j \in DateLines :
          /\ i # j
          /\ DateWritten(history.git_history[i]) = DateWritten(history.git_history[j])
    /\ DOMAIN unwrap(ParseResult.value.git_log_dates) = {2023, 2024}

C16_WitnessTwoDays ==
    /\ Parsed /\ ParseResult.kind = "Ok"
    /\ 2024 \in DOMAIN unwrap(ParseResult.value.git_log_dates)
    /\ unwrap(ParseResult.value.git_log_dates)[2024][2] = {1, 29}

\* C17: a log text none of whose lines is a date line ends in the data error
\* of a repository without history, and never in a success with an empty index
\* and an empty timesheet.
C17_NoHistoryIsDataError ==
    (Parsed /\ DateLines = {}) => ParseResult = Exit("DATAERR")

\* C18: a date line that writes no date is skipped: parsing ends without a
\* panic, and the dates of the other date lines are in the index.
C18_MalformedLineSkipped ==
    (Parsed /\ \E i \in DateLines : ~WritesDate(history.git_history[i])) =>
        /\ ParseResult.kind = "Ok"
        /\ IndexTriples(unwrap(ParseResult.value.git_log_dates))
               = {DateWritten(history.git_history[i]) :
                      i \in {j \in DateLines : WritesDate(history.git_history[j])}}


(***************************************************************************)
(* Claims about the validation of the date of an edit.                     *)
(***************************************************************************)
\* years, months and days on both sides of every limit of the validation
ValidatedYears == {1899, 1900, 2024, 2099, 2100}

ValidatedMonths == {0, 1, 2, 12, 13}

ValidatedDays == {-1, 0, 1, 28, 29, 30, 31, 32}

IsDate(year, month, day) ==
    /\ year \in 1900..2099
    /\ month \in 1..12
    /\ day \in 1..CalendarDays(year, month)

ValidationErrors ==
    {Err("Not a real year"), Err("Not a real month"),
     Err("Day index in the month doesn't exist"),
     Err("The day given doesn't exist for the given month/year")}

\* what the validation does with the dates around its limits, in one state
C19_DatesValidated ==
    \A i \in DOMAIN ClientRepos :
         \A year \in ValidatedYears, month \in ValidatedMonths, day \in ValidatedDays :
            \A edited \in {update_hours_on_month_day_entry(
                               ClientRepos[i],
                               <<Some(5), Some(day), Some(month), Some(year)>>)} :
               IF IsDate(year, month, day)
               THEN /\ check_for_valid_day(Some(day), month, year) = Ok(day)
                    /\ edited.kind # "Err"
               ELSE edited \in ValidationErrors

\* C19: an edit of one day is rejected with an error of the validation, the
\* repository and its timesheet staying as they were, whenever the year is not
\* in 1900..2099, the month is not in 1..12 or the day is not in 1..the number
\* of days of the month of that year; every day from 1 to that number passes
\* the validation and the edit is not rejected by it.
C19_ValidatesBeforeMutating ==
    /\ []C19_DatesValidated
    /\ [][(run'.op = "edit" /\ run'.result = "Err") => client' = client]_vars

\* an edit was rejected
C19_Witness ==
    /\ run.op = "edit" /\ run.result = "Err"
    /\ \E i \in DOMAIN ClientRepos : is_some(ClientRepos[i].timesheet)


(***************************************************************************)
(* SpecRace: two invocations of the program on one config file.  An        *)
(* invocation reads the file once into its buffer                          *)
(* (read_data_from_config_file), runs its command on the buffer, and       *)
(* writes the document once (write_json_to_config_file) or exits without   *)
(* writing; nothing locks the file and nothing compares the file with the  *)
(* buffer before the write.                                                *)
(***************************************************************************)
Invocations == {1, 2}

\* what `git log` answers while the two invocations run
RaceLog == [namespace \in ConfigNamespaces |-> {<<2024, 2, 1>>}]

\* the commands of the invocations: init of a repository for a new client or
\* for the first client that the prompt offers, a confirmed removal of the
\* client 'Apple', and a change of its name
RaceCommands ==
    {[op |-> "init", namespace |-> namespace, existing |-> existing, typed |-> "beta"] :
        namespace \in ConfigNamespaces, existing \in BOOLEAN}
      \cup {[op |-> "remove", client |-> "Apple"], [op |-> "update", client |-> "Apple"]}

\* what the user selects at the prompt of init: the prompt offers the clients
\* of the document that was read
selection_of(command, file) ==
    IF command.existing /\ is_some(file) /\ Len(unwrap(file)) > 0
    THEN get_client_name(unwrap(file)[1])
    ELSE "Create a new client"

\* the command of invocation p on the document of its buffer, whatever the
\* file holds by now: Ok(the file to leave), or the exit or the panic that ends
\* the invocation
run_command_on_file(command, p, buffer, file) ==
    CASE command.op = "init" ->
             init(file, command.namespace, selection_of(command, file), command.typed,
                  NanoIds[p + 1], RaceLog)
      [] command.op = "remove" ->
             remove(file, <<Some(command.client), None>>, TRUE)
      [] command.op = "update" ->
             update(file, <<Some(command.client), None>>, Some("gamma"), RaceLog)

run_command(command, p, buffer, file) ==
    CASE command.op = "init" ->
             init(buffer, command.namespace, selection_of(command, buffer), command.typed,
                  NanoIds[p + 1], RaceLog)
      [] command.op = "remove" ->
             remove(buffer, <<Some(command.client), None>>, TRUE)
      [] command.op = "update" ->
             update(buffer, <<Some(command.client), None>>, Some("gamma"), RaceLog)

\* the files that the invocations find: none, or the document that init left
\* for the client 'Apple' and the repository 'autolog'
RaceFiles ==
    {None,
     init(None, "autolog", "Create a new client", "Apple", NanoIds[1], RaceLog).value}

RaceInit ==
    /\ race \in {[file |-> file, found |-> file,
                  invocation |-> [p \in Invocations |->
                      [pc |-> "start", command |-> commands[p], buffer |-> None,
                       result |-> "none"]]] :
                    file \in RaceFiles, commands \in [Invocations -> RaceCommands]}
    /\ alloc = Idle /\ client = Idle /\ gitlog = Idle /\ run = Idle
    /\ merge = Idle /\ config = Idle /\ history = Idle

\* read_data_from_config_file: the file as it is now goes into the buffer
ReadFile(p) ==
    /\ race.invocation[p].pc = "start"
    /\ race' = [race EXCEPT !.invocation[p].pc = "read",
                            !.invocation[p].buffer = race.file]
    /\ UNCHANGED <<alloc, client, gitlog, run, merge, config, history>>

\* the command ran on the buffer and the invocation writes what it got (or
\* deletes the file, when the document has no entry left)
WriteFile(p) ==
    /\ race.invocation[p].pc = "read"
    /\ \E result \in {run_command(race.invocation[p].command, p,
                                  race.invocation[p].buffer, race.file)} :
          /\ result.kind = "Ok"
          /\ race' = [race EXCEPT !.file = result.value,
                                  !.invocation[p].pc = "done",
                                  !.invocation[p].result =
                                      IF result.deleted THEN "deleted" ELSE "written"]
    /\ UNCHANGED <<alloc, client, gitlog, run, merge, config, history>>

\* the command ended the process before the write
ExitWithoutWrite(p) ==
    /\ race.invocation[p].pc = "read"
    /\ \E result \in {run_command(race.invocation[p].command, p,
                                  race.invocation[p].buffer, race.file)} :
          /\ result.kind # "Ok"
          /\ race' = [race EXCEPT !.invocation[p].pc = "done",
                                  !.invocation[p].result = result.kind]
    /\ UNCHANGED <<alloc, client, gitlog, run, merge, config, history>>

RaceNext == \E p \in Invocations : ReadFile(p) \/ WriteFile(p) \/ ExitWithoutWrite(p)

SpecRace == RaceInit /\ [][RaceNext]_vars

(***************************************************************************)
(* Claims about concurrent invocations.                                    *)
(***************************************************************************)
BothWrote == \A p \in Invocations : race.invocation[p].result = "written"

\* what the command of p leaves when it runs alone on a file
Alone(p, file) ==
    run_command(race.invocation[p].command, p, file, file)

\* the namespaces of the repositories of a file
NamespacesOf(file) ==
    IF is_none(file) THEN {}
    ELSE UNION {IF is_none(unwrap(file)[i].repositories) THEN {}
                ELSE {unwrap(unwrap(file)[i].repositories)[j].namespace :
                         j \in DOMAIN unwrap(unwrap(file)[i].repositories)} :
                   i \in DOMAIN unwrap(file)}

\* C20: nothing orders the reads and the writes of two invocations, and the
\* write of an invocation is what its command made of its own buffer: when
\* both invocations read the file before either wrote, and both wrote, the
\* file is what one of the two commands alone leaves of the file they found,
\* so that the change of the other is lost.
C20_LastWriteWins ==
    (BothWrote /\ \A p \in Invocations : race.invocation[p].buffer = race.found) =>
        \E p \in Invocations : race.file = Alone(p, race.found).value

\* both invocations init a repository of their own, both wrote, and the file
\* lacks the repository of one of them, which it has after the two commands
\* in either order one after the other
C20_Witness ==
    /\ BothWrote
    /\ race.invocation[1].command.op = "init"
    /\ race.invocation[2].command.op = "init"
    /\ race.invocation[1].command.namespace # race.invocation[2].command.namespace
    /\ \E p \in Invocations :
          race.invocation[p].command.namespace \notin NamespacesOf(race.file)
    /\ \A p, q \in Invocations :
          p # q =>
             \A first \in {Alone(p, race.found)} :
                /\ first.kind = "Ok"
                /\ \A second \in {Alone(q, first.value)} :
                      /\ second.kind = "Ok"
                      /\ {race.invocation[1].command.namespace,
                          race.invocation[2].command.namespace}
                             \subseteq NamespacesOf(second.value)


(***************************************************************************)
(* SpecMonths: a client record whose git logs span two months, one of      *)
(* them with a worked Saturday.  The operations are those of SpecClient.   *)
(***************************************************************************)
\* the most repositories of the client, and the most commits, rewrites and
\* edits of a behaviour
MaxMonthRepos == 2

MaxMonthSteps == 2

\* the dates the git logs draw from: a Thursday of February 2024 and the
\* first Saturday of March 2024
MonthDates == {<<2024, 2, 1>>, <<2024, 3, 2>>}

\* the days an edit names.  An edit of day d reaches the entry of day d + 1:
\* the Saturdays 3 February and 2 March, and the Friday 2 February
MonthEdits == {<<2024, 2, 2>>, <<2024, 3, 1>>, <<2024, 2, 1>>}

MonthsInit ==
    \E n \in 1..MaxMonthRepos :
      \E git \in [{Namespaces[i] : i \in 1..n} -> SUBSET MonthDates] :
        /\ gitlog = git
        /\ \E onboarded \in {[i \in 1..n |-> OnboardedRepository(Namespaces[i], git)]} :
              client = [set_values(ClientRepositories(None), onboarded[1])
                          EXCEPT !.repositories = Some(onboarded)]
        /\ run = [op |-> "init", result |-> "Ok", fresh |-> FALSE, steps |-> 0]
        /\ alloc = Idle /\ merge = Idle /\ config = Idle /\ history = Idle /\ race = Idle

\* a commit of the author appears in the log of a repository
CommitInMonth ==
    \E namespace \in DOMAIN gitlog, date \in MonthDates :
      /\ run.steps < MaxMonthSteps
      /\ date \notin gitlog[namespace]
      /\ gitlog' = [gitlog EXCEPT ![namespace] = @ \cup {date}]
      /\ run' = [run EXCEPT !.op = "commit", !.result = "Ok", !.fresh = FALSE,
                            !.steps = @ + 1]
      /\ UNCHANGED <<client, alloc, merge, config, history, race>>

\* the commits of a date leave the log of a repository (a rewritten history)
UncommitInMonth ==
    \E namespace \in DOMAIN gitlog, date \in MonthDates :
      /\ run.steps < MaxMonthSteps
      /\ date \in gitlog[namespace]
      /\ gitlog' = [gitlog EXCEPT ![namespace] = @ \ {date}]
      /\ run' = [run EXCEPT !.op = "uncommit", !.result = "Ok", !.fresh = FALSE,
                            !.steps = @ + 1]
      /\ UNCHANGED <<client, alloc, merge, config, history, race>>

\* update_hours_on_month_day_entry on one repository of the record
EditDayOfMonth ==
    \E i \in DOMAIN unwrap(client.repositories), date \in MonthEdits :
        /\ run.steps < MaxMonthSteps
        /\ \E edited \in {update_hours_on_month_day_entry(
                               unwrap(client.repositories)[i],
                               <<Some(5), Some(date[3]), Some(date[2]), Some(date[1])>>)} :
              /\ client' = IF edited.kind = "Ok"
                           THEN [client EXCEPT !.repositories[1][i] = edited.value]
                           ELSE client
              /\ run' = [run EXCEPT !.op = "edit", !.result = edited.kind,
                                    !.fresh = IF edited.kind = "Ok" THEN FALSE ELSE @,
                                    !.steps = @ + 1]
        /\ UNCHANGED <<gitlog, alloc, merge, config, history, race>>

MonthsNext == CommitInMonth \/ UncommitInMonth \/ Sync \/ EditDayOfMonth

SpecMonths == MonthsInit /\ [][MonthsNext]_vars


(***************************************************************************)
(* Claims about the months of a timesheet.                                 *)
(***************************************************************************)
\* the (year, month) pairs of the git log of repository i
LoggedMonths(i) == {<<date[1], date[2]>> : date \in gitlog[ClientRepos[i].namespace]}

\* the (year, month) pairs of the timesheet of repository i
TimesheetMonths(i) ==
    {ym \in {<<date[1], date[2]>> : date \in MonthDates} :
        i \in HavingMonth(<<ym[1], ym[2], 1>>)}

\* a repository with a prior timesheet and a month of its log that the
\* timesheet does not have
NewMonths ==
    {<<i, ym>> \in (DOMAIN ClientRepos) \X {<<date[1], date[2]>> : date \in MonthDates} :
        /\ is_some(ClientRepos[i].timesheet)
        /\ ym \in LoggedMonths(i)
        /\ ym \notin TimesheetMonths(i)}

\* C21: a recomputation for a repository that has a prior timesheet and whose
\* git log has a month that the prior timesheet does not have succeeds, and
\* every day of the new month is computed: not flagged as edited, 8 / k hours
\* on a day that k repositories of the client worked and 0 on the others.
C21_NewMonthComputed ==
    [][(run'.op = "sync" /\ NewMonths # {}) =>
          /\ run'.result = "Ok"
          /\ \A new \in NewMonths :
                \A day \in 1..CalendarDays(new[2][1], new[2][2]) :
                   \A date \in {<<new[2][1], new[2][2], day>>} :
                      /\ new[1] \in HavingMonth(date)'
                      /\ ~EntryOf(new[1], date)'.user_edited
                      /\ EntryOf(new[1], date)'.hours * Max(1, Cardinality(Workers(date)))
                            = IF new[1] \in Workers(date)
                              THEN FullDay * HourScale ELSE 0]_vars


\* the days of the months of the dates of the logs
MonthCalendar ==
    {date \in {2024} \X {2, 3} \X (1..31) : date[3] <= CalendarDays(date[1], date[2])}

C23_LookupByClientName ==
    is_some(config) =>
       \A client_name \in ClientNames :
          \A found \in {check_for_client_or_repo_in_buffer(
                            unwrap(config), None, Some(client_name))} :
             IF \E i \in DOMAIN unwrap(config) : Named(unwrap(config)[i], client_name)
             THEN /\ found.kind = "Ok"
                  /\ is_some(found.value[2])
                  /\ Named(unwrap(found.value[2]), client_name)
                  /\ \E i \in DOMAIN unwrap(config) : unwrap(config)[i] = unwrap(found.value[2])
             ELSE found = Exit("CANTCREAT") \/ found = Ok(<<None, None>>)


\* the (year, month) keys of the timesheet of repository i and of its index
TimesheetKeys(i) ==
    IF is_none(ClientRepos[i].timesheet) THEN {}
    ELSE UNION {{<<ys, ms>> : ms \in DOMAIN unwrap(ClientRepos[i].timesheet)[ys]} :
                   ys \in DOMAIN unwrap(ClientRepos[i].timesheet)}

IndexKeys(i) ==
    IF is_none(ClientRepos[i].git_log_dates) THEN {}
    ELSE {<<to_string(ym[1]), to_string(ym[2])>> :
             ym \in month_keys(unwrap(ClientRepos[i].git_log_dates))}

WorkersOf(entry, date) ==
    {j \in DOMAIN unwrap(entry.repositories) :
        date \in gitlog[unwrap(entry.repositories)[j].namespace]}

DayEntryOf(repository, date) ==
    unwrap(repository.timesheet)[to_string(date[1])][to_string(date[2])][date[3]]

\* C25: after init added a repository to a client of the document, the
\* timesheets of that client in the written document are allocated from the
\* git logs of all its repositories, the new one included: on a day that k of
\* them worked, the new repository and each sibling hold 8 / k in an entry
\* that is not edited.
C25_InitAllocatesWithSiblings ==
    [][(run'.op = "init" /\ run'.result = "Ok" /\ is_some(config)) =>
          \A i \in DOMAIN unwrap(config') :
             Holds(unwrap(config')[i], run'.options[1]) =>
                \A date \in LogDates :
                   \A j \in WorkersOf(unwrap(config')[i], date) :
                      \A repository \in {unwrap(unwrap(config')[i].repositories)[j]} :
                         ~DayEntryOf(repository, date).user_edited =>
                            DayEntryOf(repository, date).hours
                                 * Cardinality(WorkersOf(unwrap(config')[i], date))
                               = FullDay * HourScale]_vars


(***************************************************************************)
(* Claims about the entry that a merge writes.                             *)
(***************************************************************************)
\* C26: a merge of a record whose client name is exactly the name of an entry
\* of the document writes, for that entry, the repositories that the entry
\* had followed by the first repository of the record, one repository more
\* than before, with the client, the user, the approver and
\* requires_approval of the record.
C26_AppendsFirstRepository ==
    Merged =>
       \A record \in {unwrap(merge.client_repositories)} :
          \A i \in DOMAIN unwrap(merge.deserialized_config) :
             \A entry \in {unwrap(merge.deserialized_config)[i]} :
                OfRecord(entry) =>
                   \A written \in {merge.written.value[i]} :
                      /\ written.repositories =
                            Some(unwrap(entry.repositories)
                                     \o <<unwrap(record.repositories)[1]>>)
                      /\ Len(unwrap(written.repositories))
                            = Len(unwrap(entry.repositories)) + 1
                      /\ written.client = record.client
                      /\ written.user = record.user
                      /\ written.approver = record.approver
                      /\ written.requires_approval = record.requires_approval

\* a record with two repositories, an approver and another id and user than
\* the entry of its name was merged into that entry, which had a repository
C26_Witness ==
    /\ Merged
    /\ \E i \in DOMAIN unwrap(merge.deserialized_config) :
          /\ OfRecord(unwrap(merge.deserialized_config)[i])
          /\ Len(unwrap(unwrap(merge.deserialized_config)[i].repositories)) = 1
          /\ Len(unwrap(merge.written.value[i].repositories)) = 2
          /\ unwrap(merge.deserialized_config)[i].client
                # unwrap(merge.client_repositories).client
          /\ unwrap(merge.deserialized_config)[i].user
                # unwrap(merge.client_repositories).user
    /\ Len(unwrap(unwrap(merge.client_repositories).repositories)) = 2
    /\ unwrap(merge.client_repositories).requires_approval


(***************************************************************************)
(* Claims about the user of a record.                                      *)
(***************************************************************************)
\* the users that a record can have when set_values is called: none, the one
\* it has, one derived from the author of an earlier repository, and an alias
\* that the user typed
RecordUsers(record) ==
    {None, record.user,
     Some([name |-> "J. Jones", is_alias |-> FALSE]),
     Some([name |-> "J. Jones", is_alias |-> TRUE])}

\* C27: set_values takes the user of the record from the author of the
\* repository only when the record has no user or its user is not an alias; a
\* user that was set as an alias keeps its name and its alias flag.
C27_AliasKept ==
    (is_some(merge.client_repositories)
        /\ is_some(unwrap(merge.client_repositories).repositories)) =>
       \A record \in {unwrap(merge.client_repositories)} :
          \A user \in RecordUsers(record), j \in DOMAIN unwrap(record.repositories) :
             \A repository \in {unwrap(record.repositories)[j]} :
                \A set \in {set_values([record EXCEPT !.user = user], repository)} :
                   IF is_none(user) \/ ~unwrap(user).is_alias
                   THEN set.user = Some([name |-> unwrap(repository.name),
                                         is_alias |-> FALSE])
                   ELSE set.user = user


(***************************************************************************)
(* Claims about the replacement of an entry of the document.               *)
(***************************************************************************)
\* the records that replace an entry: an entry of the document with another
\* name, and the same under an id that the document does not have
ReplacingRecords(document) ==
    UNION {{update_client_name(document[i], "gamma"),
            [update_client_name(document[i], "gamma") EXCEPT
                !.client = Some([unwrap(@) EXCEPT !.id = "id0"])]} :
              i \in DOMAIN document}

ReplacedIn(document, record) ==
    \A new_client_repos \in {update_client_repositories(document, record)} :
       /\ Len(new_client_repos) = Len(document)
       /\ \A i \in DOMAIN document :
             new_client_repos[i] =
                IF get_client_id(document[i]) = get_client_id(record)
                THEN record ELSE document[i]
       /\ (\A i \in DOMAIN document : get_client_id(document[i]) # get_client_id(record))
             => new_client_repos = document

\* C28: update_client_repositories returns a document of the length and the
\* order of its input in which exactly the entries that have the client id of
\* the record are the record and all the others are as they were; when no
\* entry has the id, the document is returned as it was, without the record.
\* An edit or an update that writes therefore writes a document of the same
\* length and the same ids in which at most one entry changed.
C28_ReplacesEntryOfId ==
    /\ [](is_some(config) =>
            \A record \in ReplacingRecords(unwrap(config)) :
               ReplacedIn(unwrap(config), record))
    /\ [][(run'.op \in {"edit", "update"} /\ run'.result = "Ok") =>
             /\ is_some(config) /\ is_some(config')
             /\ Len(unwrap(config')) = Len(unwrap(config))
             /\ \A i \in DOMAIN unwrap(config) :
                   get_client_id(unwrap(config')[i]) = get_client_id(unwrap(config)[i])
             /\ Cardinality({i \in DOMAIN unwrap(config) :
                                unwrap(config')[i] # unwrap(config)[i]}) <= 1]_vars

\* an update wrote a document of two entries, one of them renamed
C28_Witness ==
    /\ run.op = "update" /\ run.result = "Ok" /\ run.writes = 1
    /\ is_some(config) /\ Len(unwrap(config)) = 2
    /\ \E i, j \in DOMAIN unwrap(config) :
          /\ i # j
          /\ get_client_name(unwrap(config)[i])
                = unwrap(unwrap(config)[i].repositories)[1].client_name[1]
          /\ get_client_name(unwrap(config)[j]) # "gamma"


(***************************************************************************)
(* Claims about the order of the repositories of a client.                 *)
(***************************************************************************)
\* the orders of a list of n repositories
Orders(n) == {p \in [1..n -> 1..n] : \A i, j \in 1..n : p[i] = p[j] => i = j}

\* the record with its repositories in the order p
Reordered(self, p) ==
    [self EXCEPT !.repositories =
        Some([i \in DOMAIN p |-> unwrap(self.repositories)[p[i]]])]

\* the record as exec_generate_timesheets_from_git_history leaves it
Generated == exec_generate_timesheets_from_git_history(client, gitlog)

SameInEveryOrder(self) ==
    \A compared \in {compare_logs_and_set_timesheets(self)} :
      \A p \in Orders(Len(unwrap(self.repositories))) :
        \A reordered \in {compare_logs_and_set_timesheets(Reordered(self, p))} :
           /\ reordered.kind = compared.kind
           /\ compared.kind = "Ok" =>
                 \A i \in DOMAIN p :
                    unwrap(reordered.value.repositories)[i]
                       = unwrap(compared.value.repositories)[p[i]]

\* C29: the result of compare_logs_and_set_timesheets does not depend on the
\* order of the repository list: in every order of the list each repository
\* receives the same timesheet (and the assembly fails in every order when it
\* fails in one).
C29_OrderIndependent ==
    Generated.kind = "Ok" => SameInEveryOrder(Generated.value)

\* three repositories were assembled; the first worked a day alone and
\* shares another day with one sibling only, so the adjacent lists differ
\* between the repositories and between the orders
C29_Witness ==
    /\ run.op = "sync" /\ run.fresh
    /\ Len(unwrap(client.repositories)) = 3
    /\ gitlog[Namespaces[1]] = LogDates
    /\ gitlog[Namespaces[2]] # gitlog[Namespaces[3]]
    /\ Generated.kind = "Ok"
    /\ compare_logs_and_set_timesheets(Generated.value).kind = "Ok"
    /\ client = compare_logs_and_set_timesheets(Generated.value).value
    /\ \E i, j \in 1..3 :
          unwrap(client.repositories)[i].timesheet
             # unwrap(client.repositories)[j].timesheet


(***************************************************************************)
(* Claims about the removal of the only repository of a client.            *)
(***************************************************************************)
\* the first entry of the document that has the name of the removed client
FirstNamed(doc) ==
    CHOOSE i \in DOMAIN doc :
       /\ Named(doc[i], RemovedClient)
       /\ \A k \in DOMAIN doc : Named(doc[k], RemovedClient) => i <= k

\* the step is a confirmed remove by namespace, and the namespace is the only
\* repository of the entry of the client
RemovingOnlyRepository ==
    /\ Removing /\ Confirmed /\ is_some(RemovedNamespace)
    /\ \E i \in DOMAIN unwrap(config) : Named(unwrap(config)[i], RemovedClient)
    /\ \A entry \in {unwrap(config)[FirstNamed(unwrap(config))]} :
          /\ Len(unwrap(entry.repositories)) = 1
          /\ Holds(entry, unwrap(RemovedNamespace))

\* C30: removing the only repository of a client by namespace leaves the
\* entry of that client in the document with an empty repository list: the
\* entry is not removed, the other entries are as they were, and the file is
\* written and not deleted.  A remove that ends without removing leaves the
\* document as it was.
C30_EntryKeptWithoutRepositories ==
    [][RemovingOnlyRepository =>
         \A doc \in {unwrap(config)} :
           \A i \in {FirstNamed(doc)} :
              /\ is_some(config') /\ ~run'.deleted
              /\ Len(unwrap(config')) = Len(doc)
              /\ IF run'.result = "Ok"
                 THEN /\ run'.writes = 1
                      /\ unwrap(config') =
                            [doc EXCEPT ![i] = [@ EXCEPT !.repositories = Some(<<>>)]]
                 ELSE config' = config]_vars

\* the only repository of the only client was removed: the document that was
\* written holds the entry of the client, without repositories
C30_Witness ==
    /\ run.op = "remove" /\ run.result = "Ok" /\ run.options[3]
    /\ is_some(run.options[2])
    /\ run.writes = 1 /\ ~run.deleted
    /\ is_some(config) /\ Len(unwrap(config)) = 1
    /\ Named(unwrap(config)[1], run.options[1])
    /\ unwrap(config)[1].repositories = Some(<<>>)

\* the same in a document of two clients
C30_WitnessTwoClients ==
    /\ run.op = "remove" /\ run.result = "Ok" /\ run.options[3]
    /\ is_some(run.options[2])
    /\ is_some(config) /\ Len(unwrap(config)) = 2
    /\ \E i \in DOMAIN unwrap(config) :
          /\ Named(unwrap(config)[i], run.options[1])
          /\ unwrap(config)[i].repositories = Some(<<>>)
    /\ \E i \in DOMAIN unwrap(config) :
          /\ ~Named(unwrap(config)[i], run.options[1])
          /\ Len(unwrap(unwrap(config)[i].repositories)) = 1

=============================================================================
